---- MODULE Spec2Model ----
(***************************************************************************)
(* Model of the declarative-pipelines command framework:                   *)
(*   core/base_command.py      CommandResult, BaseCommand                  *)
(*   commands/build_command.py BuildCommand                                *)
(*   commands/test_command.py  TestCommand                                 *)
(*   commands/docker_command.py, commands/terraform_command.py             *)
(*                                                                         *)
(* One command object is constructed (validation runs in the constructor)  *)
(* and then run() is called on it.  Every subprocess.run call of the code  *)
(* is one step of the model, together with the code that follows it up to  *)
(* the next subprocess.run call or the return.                             *)
(*                                                                         *)
(* Text (process output, messages, str(exception)) is a sequence of        *)
(* lexemes; a lexeme is a piece of literal text together with the decimal  *)
(* number printed in it, if any.  Python's None is the empty set and a     *)
(* present Optional value v is the set {v}.                                *)
(***************************************************************************)
EXTENDS Integers, Sequences, FiniteSets, TLC

VARIABLES
    cmd,         \* class of the command object: "none" before construction
    parameters,  \* self.parameters
    pc,          \* position of the caller / of execute()
    trace,       \* processes spawned and stages of execute() run, in order
    proc,        \* outcome of the last subprocess.run call
    locals,      \* local variables of execute() that live across steps
    thrown,      \* the exception execute() raised, None if it raised none
    result,      \* the CommandResult returned by run(), None before
    raised       \* the exception that reached the caller, None if none did

vars == <<cmd, parameters, pc, trace, proc, locals, thrown, result, raised>>

----------------------------------------------------------------------------
(* Bounds of the model *)

\* largest count printed in a test summary line
MaxCount == 1

\* largest number of lines of a test run's output
MaxLines == 2

----------------------------------------------------------------------------
(* Text *)

Tok(k, n) == [k |-> k, n |-> n]

W(k) == Tok(k, 0)

NL == W("\n")

\* a string spelled out character by character
Chars(cs) == [i \in 1..Len(cs) |-> W(cs[i])]

None == {}

Some(v) == {v}

The(s) == CHOOSE v \in s : TRUE

RECURSIVE Join(_, _)
\* sep.join(parts), for a list of texts
Join(parts, sep) ==
    IF Len(parts) = 0 THEN <<>>
    ELSE IF Len(parts) = 1 THEN parts[1]
    ELSE parts[1] \o sep \o Join(Tail(parts), sep)

\* s in t, for texts
IsInfix(s, t) ==
    \E i \in 0..(Len(t) - Len(s)) : SubSeq(t, i + 1, i + Len(s)) = s

\* the positions of t that satisfy P, and the least of them (0 if none)
Least(S) == IF S = {} THEN 0 ELSE CHOOSE i \in S : \A j \in S : i <= j

Range(s) == {s[i] : i \in 1..Len(s)}

Restrict(f, S) == [k \in S |-> f[k]]

----------------------------------------------------------------------------
(* core/base_command.py *)

\* CommandResult with output_data defaulting to an empty mapping
CommandResult_emptyDefault(success, message, output_data, error_details) ==
    [success |-> success, message |-> message,
     output_data |-> IF output_data = None THEN Some(<<>>) ELSE output_data,
     error_details |-> error_details]

\* CommandResult dataclass
CommandResult(success, message, output_data, error_details) ==
    [success |-> success, message |-> message,
     output_data |-> output_data, error_details |-> error_details]

\* an exception object: its class name and str(error)
Exception(type, text) == [type |-> type, text |-> text]

\* the outcome of a piece of code: the exception it raised or the value it
\* returned, with the processes and stages it went through
Raise(e, events) == [exc |-> Some(e), ret |-> None, events |-> events]

Return(v, events) == [exc |-> None, ret |-> Some(v), events |-> events]

\* BaseCommand.run putting the description in the message only
run_noDetails(r) ==
    IF r.exc # None
    THEN [r EXCEPT !.exc = None,
                   !.ret = Some([success |-> FALSE,
                                 message |-> <<W("Command execution failed:"),
                                               W(The(r.exc).type)>>
                                             \o The(r.exc).text,
                                 output_data |-> None,
                                 error_details |-> None])]
    ELSE r

\* BaseCommand.run with the handler narrowed to RuntimeError
run_RuntimeErrorOnly(r) ==
    IF r.exc # None /\ The(r.exc).type = "RuntimeError"
    THEN [r EXCEPT !.exc = None,
                   !.ret = Some(CommandResult(FALSE,
                               <<W("Command execution failed:"),
                                 W(The(r.exc).type)>>,
                               None, Some(The(r.exc).text)))]
    ELSE r

\* BaseCommand.run: try: return self.execute()  except Exception: ...
run(r) ==
    IF r.exc # None
    THEN [r EXCEPT !.exc = None,
                   !.ret = Some(CommandResult(FALSE,
                               <<W("Command execution failed:"),
                                 W(The(r.exc).type)>>,
                               None, Some(The(r.exc).text)))]
    ELSE r

\* BaseCommand._require_parameters reporting the first missing key only
_require_parameters_first(p, parameter_names) ==
    LET missing == SelectSeq(parameter_names, LAMBDA k : k \notin DOMAIN p)
    IN  IF missing # <<>>
        THEN Some(Exception("ValueError",
                 <<W("Missing required parameters:"), W(missing[1])>>))
        ELSE None

\* BaseCommand._require_parameters: None, or the ValueError it raises
_require_parameters(p, parameter_names) ==
    LET missing_parameters ==
            SelectSeq(parameter_names, LAMBDA k : k \notin DOMAIN p)
    IN  IF missing_parameters # <<>>
        THEN Some(Exception("ValueError",
                 <<W("Missing required parameters:")>> \o
                 Join([i \in 1..Len(missing_parameters) |->
                          <<W(missing_parameters[i])>>], <<W(", ")>>)))
        ELSE None

\* BaseCommand._get_parameter
_get_parameter(p, parameter_name, default_value) ==
    IF parameter_name \in DOMAIN p THEN p[parameter_name] ELSE default_value

\* Path(...).exists()
exists(files, path) == path \in files

----------------------------------------------------------------------------
(* Parameter validation of the four commands (run by the constructor) *)

\* BuildCommand.DEFAULT_BUILD_COMMANDS.keys()
DEFAULT_BUILD_COMMANDS == <<"maven", "gradle", "npm", "pip", "go">>

\* TestCommand.DEFAULT_TEST_COMMANDS.keys()
DEFAULT_TEST_COMMANDS == <<"maven", "gradle", "pytest", "jest", "gotest">>

\* DockerCommand.VALID_OPERATIONS
DockerCommand_VALID_OPERATIONS == <<"build", "push", "build-and-push">>

\* TerraformCommand.VALID_OPERATIONS
TerraformCommand_VALID_OPERATIONS ==
    <<"init", "plan", "apply", "destroy", "validate", "output">>

\* the words of a list of names, joined by ', '
Names(names) == Join([i \in 1..Len(names) |-> <<W(names[i])>>], <<W(", ")>>)

\* BuildCommand.validate_parameters: None, or the ValueError it raises
BuildCommand_validate_parameters(p, files) ==
    LET missing == _require_parameters(p, <<"build_tool", "project_path">>)
    IN  IF missing # None THEN missing
        ELSE IF p["build_tool"] \notin Range(DEFAULT_BUILD_COMMANDS)
        THEN Some(Exception("ValueError",
                 <<W("Unsupported build tool:"), W(p["build_tool"]),
                   W(". Supported tools:")>> \o Names(DEFAULT_BUILD_COMMANDS)))
        ELSE IF ~exists(files, p["project_path"])
        THEN Some(Exception("ValueError",
                 <<W("Project path does not exist:"), W(p["project_path"])>>))
        ELSE None

\* TestCommand.validate_parameters
TestCommand_validate_parameters(p, files) ==
    LET missing == _require_parameters(p, <<"test_framework", "project_path">>)
    IN  IF missing # None THEN missing
        ELSE IF p["test_framework"] \notin Range(DEFAULT_TEST_COMMANDS)
        THEN Some(Exception("ValueError",
                 <<W("Unsupported test framework:"), W(p["test_framework"]),
                   W(". Supported frameworks:")>> \o
                 Names(DEFAULT_TEST_COMMANDS)))
        ELSE IF ~exists(files, p["project_path"])
        THEN Some(Exception("ValueError",
                 <<W("Project path does not exist:"), W(p["project_path"])>>))
        ELSE None

\* DockerCommand.validate_parameters without the Dockerfile check
DockerCommand_validate_parameters_noDockerfile(p, files) ==
    LET missing == _require_parameters(p, <<"operation", "image_name">>)
    IN  IF missing # None THEN missing
        ELSE IF p["operation"] \notin Range(DockerCommand_VALID_OPERATIONS)
        THEN Some(Exception("ValueError",
                 <<W("Invalid operation:"), W(p["operation"]),
                   W(". Valid operations:")>> \o
                 Names(DockerCommand_VALID_OPERATIONS)))
        ELSE None

\* DockerCommand.validate_parameters
DockerCommand_validate_parameters(p, files) ==
    LET missing == _require_parameters(p, <<"operation", "image_name">>)
        dockerfile_path == _get_parameter(p, "dockerfile_path", "./Dockerfile")
    IN  IF missing # None THEN missing
        ELSE IF p["operation"] \notin Range(DockerCommand_VALID_OPERATIONS)
        THEN Some(Exception("ValueError",
                 <<W("Invalid operation:"), W(p["operation"]),
                   W(". Valid operations:")>> \o
                 Names(DockerCommand_VALID_OPERATIONS)))
        ELSE IF /\ p["operation"] \in {"build", "build-and-push"}
                /\ ~exists(files, dockerfile_path)
        THEN Some(Exception("ValueError",
                 <<W("Dockerfile not found:"), W(dockerfile_path)>>))
        ELSE None

\* working_dir.glob('*.tf')
glob_tf(files, working_dir) == {f \in files : f = working_dir \o "/main.tf"}

\* TerraformCommand.validate_parameters
TerraformCommand_validate_parameters(p, files) ==
    LET missing == _require_parameters(p, <<"operation", "working_dir">>)
    IN  IF missing # None THEN missing
        ELSE IF p["operation"] \notin Range(TerraformCommand_VALID_OPERATIONS)
        THEN Some(Exception("ValueError",
                 <<W("Invalid operation:"), W(p["operation"]),
                   W(". Valid operations:")>> \o
                 Names(TerraformCommand_VALID_OPERATIONS)))
        ELSE IF ~exists(files, p["working_dir"])
        THEN Some(Exception("ValueError",
                 <<W("Working directory does not exist:"),
                   W(p["working_dir"])>>))
        ELSE IF glob_tf(files, p["working_dir"]) = {} /\ p["operation"] # "init"
        THEN Some(Exception("ValueError",
                 <<W("No Terraform files found in:"), W(p["working_dir"])>>))
        ELSE None

\* the abstract validate_parameters, dispatched on the class of the command
validate_parameters(c, p, files) ==
    CASE c = "build"     -> BuildCommand_validate_parameters(p, files)
      [] c = "test"      -> TestCommand_validate_parameters(p, files)
      [] c = "docker"    -> DockerCommand_validate_parameters(p, files)
      [] c = "terraform" -> TerraformCommand_validate_parameters(p, files)

----------------------------------------------------------------------------
(* The inputs: file systems and parameter sets *)

\* the files and directories that exist when the command is constructed
Files ==
    {"/proj", "/proj/Dockerfile", "./Dockerfile", "/infra", "/infra/main.tf",
     "/empty"}

\* every way of leaving out some of the keys of a parameter set
Partial(p, optional) ==
    {Restrict(p, DOMAIN p \ drop) : drop \in SUBSET optional}

BuildParameterSets ==
    UNION {Partial([build_tool |-> t, project_path |-> d],
                   {"build_tool", "project_path"}) :
           t \in Range(DEFAULT_BUILD_COMMANDS) \cup {"make"},
           d \in {"/proj", "/missing"}}

TestParameterSets ==
    UNION {Partial([test_framework |-> t, project_path |-> d,
                    coverage_enabled |-> e, coverage_threshold |-> 90],
                   {"test_framework", "project_path", "coverage_enabled",
                    "coverage_threshold"}) :
           t \in Range(DEFAULT_TEST_COMMANDS) \cup {"mocha"},
           d \in {"/proj", "/missing"},
           e \in BOOLEAN}

\* the explicit tag lists of the parameter sets
TagLists == {<<>>, <<Chars(<<"v", "1">>)>>}

DockerParameterSets ==
    UNION {Partial([operation |-> o, image_name |-> "app",
                    dockerfile_path |-> f, tags |-> t,
                    auto_tag_commit |-> TRUE, auto_tag_branch |-> TRUE,
                    auto_tag_date |-> TRUE,
                    registry_username |-> u,
                    registry_password |-> "secret"],
                   {"operation", "image_name", "dockerfile_path", "tags",
                    "auto_tag_commit", "auto_tag_branch", "auto_tag_date",
                    "registry_username", "registry_password"}) :
           o \in Range(DockerCommand_VALID_OPERATIONS) \cup {"pull"},
           f \in {"/missing/Dockerfile"},
           t \in TagLists,
           u \in {"user", ""}}

TerraformParameterSets ==
    UNION {Partial([operation |-> o, working_dir |-> d, workspace |-> w],
                   {"operation", "working_dir", "workspace"}) :
           o \in Range(TerraformCommand_VALID_OPERATIONS) \cup {"taint"},
           d \in {"/infra", "/empty", "/missing"},
           w \in {"dev", ""}}

ParameterSets(c) ==
    CASE c = "build"     -> BuildParameterSets
      [] c = "test"      -> TestParameterSets
      [] c = "docker"    -> DockerParameterSets
      [] c = "terraform" -> TerraformParameterSets

Commands == {"build", "test", "docker", "terraform"}

----------------------------------------------------------------------------
(* Events of the trace *)

\* a process that subprocess.run started and that exited with returncode
Spawn(name, returncode) == [kind |-> "spawn", name |-> name, rc |-> returncode]

\* a subprocess.run call that raised instead of starting the process
NotStarted(name) == [kind |-> "not started", name |-> name, rc |-> 0]

\* a stage of execute() that ran after a process
Stage(name) == [kind |-> "stage", name |-> name, rc |-> 0]

----------------------------------------------------------------------------
(* Outcomes of subprocess.run *)

\* subprocess.run raised: the executable or the working directory is gone
NotStartedOutcome ==
    [started |-> FALSE, returncode |-> 0, stdout |-> <<>>, stderr |-> <<>>]

Exited(returncode, stdout, stderr) ==
    [started |-> TRUE, returncode |-> returncode,
     stdout |-> stdout, stderr |-> stderr]

\* the FileNotFoundError of a subprocess.run call that could not start
FileNotFoundError ==
    Exception("FileNotFoundError", <<W("[Errno 2] No such file or directory")>>)

ExitCodes == {0, 1}

\* what a build tool, docker or terraform writes
ToolOutcomes ==
    {NotStartedOutcome} \cup
    {Exited(rc, out, err) :
        rc \in ExitCodes,
        out \in {<<>>, <<W("out"), NL>>},
        err \in {<<>>, <<W("err"), NL>>}}

----------------------------------------------------------------------------
(* Command lines, as the strings of characters that the shell is given *)

\* str.replace(old, new): every occurrence, from left to right
RECURSIVE Replace(_, _, _)
Replace(text, old, new) ==
    IF Len(text) < Len(old) \/ old = <<>> THEN text
    ELSE IF SubSeq(text, 1, Len(old)) = old
    THEN new \o Replace(SubSeq(text, Len(old) + 1, Len(text)), old, new)
    ELSE <<Head(text)>> \o Replace(Tail(text), old, new)

\* BuildCommand.DEFAULT_BUILD_COMMANDS[build_tool]
DefaultBuildCommand(build_tool) ==
    CASE build_tool = "maven"  -> Chars(<<"m", "v", "n", " ", "c", "l", "e", "a", "n", " ", "i", "n",
                "s", "t", "a", "l", "l">>)
      [] build_tool = "gradle" -> Chars(<<".", "/", "g", "r", "a", "d", "l", "e", "w", " ", "c", "l",
                "e", "a", "n", " ", "b", "u", "i", "l", "d">>)
      [] build_tool = "npm"    -> Chars(<<"n", "p", "m", " ", "r", "u", "n", " ", "b", "u", "i", "l",
                "d">>)
      [] build_tool = "pip"    -> Chars(<<"p", "i", "p", " ", "i", "n", "s", "t", "a", "l", "l", " ",
                "-", "e", " ", ".">>)
      [] build_tool = "go"     -> Chars(<<"g", "o", " ", "b", "u", "i", "l", "d", " ", "-", "o", " ",
                ".", "/", "b", "i", "n", "/", "a", "p", "p">>)

\* BuildCommand._prepare_build_command
_prepare_build_command(p) ==
    LET base_command ==
            IF "build_command" \in DOMAIN p THEN p["build_command"]
            ELSE DefaultBuildCommand(p["build_tool"])
        skipping ==
            IF ~_get_parameter(p, "skip_tests", FALSE) THEN base_command
            ELSE IF IsInfix(Chars(<<"m", "a", "v", "e", "n">>), base_command)
            THEN base_command \o Chars(<<" ", "-", "D", "s", "k", "i", "p", "T", "e", "s", "t", "s">>)
            ELSE IF IsInfix(Chars(<<"g", "r", "a", "d", "l", "e">>), base_command)
            THEN base_command \o Chars(<<" ", "-", "x", " ", "t", "e", "s", "t">>)
            ELSE base_command
        cleaning ==
            IF ~_get_parameter(p, "clean_before_build", TRUE)
            THEN Replace(skipping, Chars(<<"c", "l", "e", "a", "n", " ">>), <<>>)
            ELSE skipping
        build_arguments == _get_parameter(p, "build_arguments", <<>>)
    IN  IF build_arguments # <<>>
        THEN cleaning \o <<W(" ")>> \o build_arguments
        ELSE cleaning

\* TestCommand.DEFAULT_TEST_COMMANDS[test_framework]
DefaultTestCommand(test_framework) ==
    CASE test_framework = "maven"  -> Chars(<<"m", "v", "n", " ", "t", "e", "s", "t">>)
      [] test_framework = "gradle" -> Chars(<<".", "/", "g", "r", "a", "d", "l", "e", "w", " ", "t", "e",
                "s", "t">>)
      [] test_framework = "pytest" -> Chars(<<"p", "y", "t", "e", "s", "t">>)
      [] test_framework = "jest"   -> Chars(<<"n", "p", "m", " ", "t", "e", "s", "t">>)
      [] test_framework = "gotest" -> Chars(<<"g", "o", " ", "t", "e", "s", "t", " ", ".", "/", ".", ".",
                ".">>)

\* TestCommand._prepare_test_command
_prepare_test_command(p) ==
    LET maven == Chars(<<"m", "a", "v", "e", "n">>)
        gradle == Chars(<<"g", "r", "a", "d", "l", "e">>)
        pytest == Chars(<<"p", "y", "t", "e", "s", "t">>)
        jest == Chars(<<"j", "e", "s", "t">>)
        base_command ==
            IF "test_command" \in DOMAIN p THEN p["test_command"]
            ELSE DefaultTestCommand(p["test_framework"])
        coverage ==
            IF ~_get_parameter(p, "coverage_enabled", FALSE) THEN base_command
            ELSE IF IsInfix(maven, base_command)
            THEN Chars(<<"m", "v", "n", " ", "t", "e", "s", "t", " ", "j", "a", "c",
                "o", "c", "o", ":", "r", "e", "p", "o", "r", "t">>)
            ELSE IF IsInfix(gradle, base_command)
            THEN base_command \o Chars(<<" ", "j", "a", "c", "o", "c", "o", "T", "e", "s", "t", "R",
                "e", "p", "o", "r", "t">>)
            ELSE IF IsInfix(pytest, base_command)
            THEN base_command
                 \o Chars(<<" ", "-", "-", "c", "o", "v", " ", "-", "-", "c", "o", "v",
                "-", "r", "e", "p", "o", "r", "t", "=", "t", "e", "r", "m",
                " ", "-", "-", "c", "o", "v", "-", "r", "e", "p", "o", "r",
                "t", "=", "h", "t", "m", "l">>)
            ELSE IF IsInfix(jest, base_command)
            THEN base_command \o Chars(<<" ", "-", "-", "c", "o", "v", "e", "r", "a", "g", "e">>)
            ELSE base_command
        failing ==
            IF ~_get_parameter(p, "fail_fast", FALSE) THEN coverage
            ELSE IF IsInfix(pytest, coverage)
            THEN coverage \o Chars(<<" ", "-", "x">>)
            ELSE IF IsInfix(maven, coverage)
            THEN coverage \o Chars(<<" ", "-", "D", "f", "a", "i", "l", "I", "f", "N", "o", "T",
                "e", "s", "t", "s", "=", "f", "a", "l", "s", "e">>)
            ELSE coverage
        parallel ==
            IF ~_get_parameter(p, "parallel_execution", FALSE) THEN failing
            ELSE IF IsInfix(pytest, failing)
            THEN failing \o Chars(<<" ", "-", "n", " ", "a", "u", "t", "o">>)
            ELSE IF IsInfix(maven, failing)
            THEN failing \o Chars(<<" ", "-", "T", " ", "1", "C">>)
            ELSE IF IsInfix(jest, failing)
            THEN failing \o Chars(<<" ", "-", "-", "m", "a", "x", "W", "o", "r", "k", "e", "r",
                "s", "=", "5", "0", "%">>)
            ELSE failing
        test_pattern == _get_parameter(p, "test_pattern", <<>>)
        pattern ==
            IF test_pattern = <<>> THEN parallel
            ELSE IF IsInfix(pytest, parallel)
            THEN parallel \o Chars(<<" ", "-", "k", " ", "\"">>) \o test_pattern
                 \o Chars(<<"\"">>)
            ELSE IF IsInfix(maven, parallel)
            THEN parallel \o Chars(<<" ", "-", "D", "t", "e", "s", "t", "=">>) \o test_pattern
            ELSE parallel
        test_arguments == _get_parameter(p, "test_arguments", <<>>)
    IN  IF test_arguments # <<>>
        THEN pattern \o <<W(" ")>> \o test_arguments
        ELSE pattern

\* one argument of an argument vector that is a fixed word
Arg(word) == <<W(word)>>

\* json.dumps of a list of strings
JsonDumps(items) ==
    <<W("[")>>
    \o Join([i \in 1..Len(items) |-> <<W("\""), W(items[i]), W("\"")>>],
            <<W(", ")>>)
    \o <<W("]")>>

\* the arguments that a loop of cmd.extend([flag, text]) adds, one turn for
\* each of the texts
Extend(flag, texts) ==
    Join([i \in 1..Len(texts) |-> <<Arg(flag), texts[i]>>], <<>>)

\* TerraformCommand._add_var_flags; a variable is a name with a value that
\* is a string or a list of strings
_add_var_flags(p) ==
    LET var_file == _get_parameter(p, "var_file", "")
        variables == _get_parameter(p, "variables", <<>>)
        var(v) == <<W(v.name), W("=")>> \o
                  (IF v.type = "list" THEN JsonDumps(v.value)
                   ELSE <<W(v.value[1])>>)
    IN  (IF var_file # "" THEN <<Arg("-var-file"), Arg(var_file)>> ELSE <<>>)
        \o Extend("-var", [i \in 1..Len(variables) |-> var(variables[i])])

\* TerraformCommand._add_common_flags
_add_common_flags(p) ==
    LET targets == _get_parameter(p, "target", <<>>)
        parallelism == _get_parameter(p, "parallelism", 0)
        lock == _get_parameter(p, "lock", TRUE)
        lock_timeout == _get_parameter(p, "lock_timeout", "")
    IN  Extend("-target", [i \in 1..Len(targets) |-> Arg(targets[i])])
        \o (IF parallelism # 0
            THEN <<Arg("-parallelism"), <<Tok("#", parallelism)>>>> ELSE <<>>)
        \o (IF ~lock THEN <<Arg("-lock=false")>> ELSE <<>>)
        \o (IF lock_timeout # ""
            THEN <<Arg("-lock-timeout"), Arg(lock_timeout)>> ELSE <<>>)

\* the argument vector of TerraformCommand._execute_init, _execute_validate,
\* _execute_plan, _execute_apply, _execute_destroy and _execute_output;
\* plan_file_exists: Path(working_dir / plan_file).exists()
TerraformCommand_cmd(p, plan_file_exists) ==
    LET operation == p["operation"]
        plan_output_file == _get_parameter(p, "plan_output_file", "")
        auto_approve ==
            IF _get_parameter(p, "auto_approve", FALSE)
            THEN <<Arg("-auto-approve")>> ELSE <<>>
        backend_config == _get_parameter(p, "backend_config", <<>>)
        config(kv) == <<W(kv[1]), W("="), W(kv[2])>>
    IN  <<Arg("terraform")>> \o
        CASE operation = "init" ->
               <<Arg("init")>>
               \o Extend("-backend-config",
                         [i \in 1..Len(backend_config) |->
                             config(backend_config[i])])
               \o (IF _get_parameter(p, "reconfigure", FALSE)
                   THEN <<Arg("-reconfigure")>> ELSE <<>>)
               \o (IF _get_parameter(p, "upgrade", FALSE)
                   THEN <<Arg("-upgrade")>> ELSE <<>>)
               \o <<Arg("-no-color")>>
          [] operation = "validate" -> <<Arg("validate"), Arg("-no-color")>>
          [] operation = "plan" ->
               <<Arg("plan")>> \o _add_var_flags(p) \o _add_common_flags(p)
               \o (IF plan_output_file # ""
                   THEN <<Arg("-out"), Arg(plan_output_file)>> ELSE <<>>)
               \o (IF _get_parameter(p, "destroy_plan", FALSE)
                   THEN <<Arg("-destroy")>> ELSE <<>>)
               \o <<Arg("-no-color")>>
          [] operation = "apply" ->
               <<Arg("apply")>>
               \o (IF plan_output_file # "" /\ plan_file_exists
                   THEN <<Arg(plan_output_file)>>
                   ELSE _add_var_flags(p) \o _add_common_flags(p))
               \o auto_approve \o <<Arg("-no-color")>>
          [] operation = "destroy" ->
               <<Arg("destroy")>> \o _add_var_flags(p) \o _add_common_flags(p)
               \o auto_approve \o <<Arg("-no-color")>>
          [] operation = "output" -> <<Arg("output"), Arg("-json")>>

----------------------------------------------------------------------------
(* commands/build_command.py *)

\* BuildCommand._execute_build going on after a non-zero exit code
_execute_build_tolerant(o) ==
    IF ~o.started THEN Raise(FileNotFoundError, <<NotStarted("build")>>)
    ELSE Return(o.stdout \o o.stderr, <<Spawn("build", o.returncode)>>)

\* BuildCommand._execute_build embedding stdout instead of stderr
_execute_build_stdout(o) ==
    IF ~o.started THEN Raise(FileNotFoundError, <<NotStarted("build")>>)
    ELSE IF o.returncode # 0
    THEN Raise(Exception("RuntimeError",
                  <<Tok("Build failed with exit code", o.returncode), NL,
                    W("Error output:"), NL>> \o o.stdout),
               <<Spawn("build", o.returncode)>>)
    ELSE Return(o.stdout \o o.stderr, <<Spawn("build", o.returncode)>>)

\* BuildCommand._execute_build running the build a second time when it failed
_execute_build_retrying(o) ==
    IF ~o.started THEN Raise(FileNotFoundError, <<NotStarted("build")>>)
    ELSE IF o.returncode # 0
    THEN Raise(Exception("RuntimeError",
                  <<Tok("Build failed with exit code", o.returncode), NL,
                    W("Error output:"), NL>> \o o.stderr),
               <<Spawn("build", o.returncode), Spawn("build", o.returncode)>>)
    ELSE Return(o.stdout \o o.stderr, <<Spawn("build", o.returncode)>>)

\* BuildCommand._execute_build
_execute_build(o) ==
    IF ~o.started THEN Raise(FileNotFoundError, <<NotStarted("build")>>)
    ELSE IF o.returncode # 0
    THEN Raise(Exception("RuntimeError",
                  <<Tok("Build failed with exit code", o.returncode), NL,
                    W("Error output:"), NL>> \o o.stderr),
               <<Spawn("build", o.returncode)>>)
    ELSE Return(o.stdout \o o.stderr, <<Spawn("build", o.returncode)>>)

\* the lists of files that the artifact patterns of a tool may match
ArtifactLists == {<<>>, <<"app.jar">>, <<"app.jar", "app.war">>}

\* BuildCommand._find_build_artifacts; found: what the patterns match
_find_build_artifacts(build_tool, found) ==
    IF build_tool \in {"maven", "gradle", "npm", "go"} THEN found ELSE <<>>

\* len(text.split('\n'))
SplitLines(text) == Len(SelectSeq(text, LAMBDA t : t = NL)) + 1

\* BuildCommand.execute
BuildCommand_execute(p, o, found) ==
    LET build_tool == p["build_tool"]
        build == _execute_build(o)
    IN  IF build.exc # None THEN build
        ELSE Return(
            CommandResult(TRUE,
                <<W("Build completed successfully using"), W(build_tool)>>,
                Some([build_tool |-> build_tool,
                      project_path |-> p["project_path"],
                      command_executed |-> _prepare_build_command(p),
                      artifacts |-> _find_build_artifacts(build_tool, found),
                      build_output_lines |-> SplitLines(The(build.ret))]),
                None),
            build.events \o <<Stage("_find_build_artifacts")>>)

----------------------------------------------------------------------------
(* commands/test_command.py *)

Counts == 0..MaxCount

\* the index of the first lexeme of text at or after i that is not a
\* newline, 0 if there is none (what \s+ skips)
SkipNewlines(text, i) == Least({q \in i..Len(text) : text[q] # NL})

\* no newline from lexeme i to lexeme j (what .*? may skip)
SameLine(text, i, j) == \A m \in i..j : text[m] # NL

\* re.search(r'Tests run: (\d+), Failures: (\d+), Errors: (\d+), Skipped: (\d+)')
MavenMatch(text) ==
    Least({i \in 1..(Len(text) - 3) :
              /\ text[i].k = "Tests run:"
              /\ text[i + 1].k = ", Failures:"
              /\ text[i + 2].k = ", Errors:"
              /\ text[i + 3].k = ", Skipped:"})

\* re.search(r'(\d+) word'): the number of the first match, 0 when none
CountBefore(text, word) ==
    LET i == Least({j \in 1..Len(text) : text[j].k = word})
    IN  IF i = 0 THEN 0 ELSE text[i].n

\* re.search(r'TOTAL.*?(\d+)%'): the position of the matched percentage
PytestCoverageMatch(text) ==
    LET Pcts(i) == {j \in (i + 1)..Len(text) :
                        text[j].k = "%" /\ SameLine(text, i, j)}
        i == Least({j \in 1..Len(text) :
                        text[j].k = "TOTAL" /\ Pcts(j) # {}})
    IN  IF i = 0 THEN 0 ELSE Least(Pcts(i))

\* re.search(r'Tests:\s+(\d+) passed.*?(\d+) total'): the positions of the
\* two groups, <<0, 0>> when there is no match
JestMatch(text) ==
    LET Passed(i) == SkipNewlines(text, i + 1)
        Totals(i) == {j \in (Passed(i) + 1)..Len(text) :
                         text[j].k = "total" /\ SameLine(text, Passed(i), j)}
        i == Least({j \in 1..Len(text) :
                        /\ text[j].k = "Tests:"
                        /\ Passed(j) # 0
                        /\ text[Passed(j)].k = "passed"
                        /\ Totals(j) # {}})
    IN  IF i = 0 THEN <<0, 0>> ELSE <<Passed(i), Least(Totals(i))>>

\* re.search(r'All files\s+\|\s+([\d.]+)'): the position of the match;
\* the lexeme "All files | ." carries a group that float() rejects
JestCoverageMatch(text) ==
    Least({j \in 1..Len(text) : text[j].k \in {"All files |", "All files | ."}})

\* the results dictionary _parse_test_results starts from
NoResults ==
    [tests_total |-> 0, tests_passed |-> 0, tests_failed |-> 0,
     tests_skipped |-> 0, coverage_percentage |-> None,
     duration_seconds |-> None]

\* TestCommand._parse_test_results, "Maven/Gradle (JUnit/TestNG patterns)"
ParseMaven(test_output) ==
    LET m == MavenMatch(test_output)
        tests_run == test_output[m].n
        failures == test_output[m + 1].n
        errors == test_output[m + 2].n
        skipped == test_output[m + 3].n
    IN  IF m # 0
        THEN Return([NoResults EXCEPT
                !.tests_total = tests_run,
                !.tests_failed = failures + errors,
                !.tests_passed = tests_run - failures - errors - skipped,
                !.tests_skipped = skipped], <<>>)
        ELSE Return(NoResults, <<>>)

\* the pytest patterns with the skipped tests left out of the total
ParsePytest_noSkipped(test_output) ==
    LET passed == CountBefore(test_output, "passed")
        failed == CountBefore(test_output, "failed")
        skipped == CountBefore(test_output, "skipped")
        c == PytestCoverageMatch(test_output)
    IN  Return([NoResults EXCEPT
                !.tests_passed = passed,
                !.tests_failed = failed,
                !.tests_skipped = skipped,
                !.tests_total = passed + failed,
                !.coverage_percentage =
                    IF c # 0 THEN Some(test_output[c].n) ELSE None], <<>>)

\* TestCommand._parse_test_results, "pytest patterns"
ParsePytest(test_output) ==
    LET passed == CountBefore(test_output, "passed")
        failed == CountBefore(test_output, "failed")
        skipped == CountBefore(test_output, "skipped")
        c == PytestCoverageMatch(test_output)
    IN  Return([NoResults EXCEPT
                !.tests_passed = passed,
                !.tests_failed = failed,
                !.tests_skipped = skipped,
                !.tests_total = passed + failed + skipped,
                !.coverage_percentage =
                    IF c # 0 THEN Some(test_output[c].n) ELSE None], <<>>)

\* TestCommand._parse_test_results, "Jest patterns"; float() of the
\* coverage group raises ValueError when the group is not a number
ParseJest(test_output) ==
    LET m == JestMatch(test_output)
        passed == test_output[m[1]].n
        total == test_output[m[2]].n
        c == JestCoverageMatch(test_output)
        counted == IF m[1] # 0
                   THEN [NoResults EXCEPT
                           !.tests_passed = passed,
                           !.tests_total = total,
                           !.tests_failed = total - passed]
                   ELSE NoResults
    IN  IF c # 0 /\ test_output[c].k = "All files | ."
        THEN Raise(Exception("ValueError",
                <<W("could not convert string to float:"), W(".")>>), <<>>)
        ELSE Return([counted EXCEPT
                !.coverage_percentage =
                    IF c # 0 THEN Some(test_output[c].n) ELSE None], <<>>)

\* TestCommand._parse_test_results, "Go test patterns"
ParseGo(test_output) ==
    LET ok_count == Len(SelectSeq(test_output, LAMBDA t : t.k = "\tok\t"))
    IN  IF \E j \in 1..Len(test_output) : test_output[j].k = "PASS"
        THEN Return([NoResults EXCEPT !.tests_passed = ok_count,
                                      !.tests_total = ok_count], <<>>)
        ELSE IF \E j \in 1..Len(test_output) : test_output[j].k = "FAIL"
        THEN Return([NoResults EXCEPT !.tests_failed = 1,
                                      !.tests_total = 1], <<>>)
        ELSE Return(NoResults, <<>>)

\* TestCommand._parse_test_results: the results, or the exception raised
_parse_test_results(test_framework, test_output) ==
    IF test_framework \in {"maven", "gradle"} THEN ParseMaven(test_output)
    ELSE IF test_framework = "pytest" THEN ParsePytest(test_output)
    ELSE IF test_framework = "jest" THEN ParseJest(test_output)
    ELSE IF test_framework = "gotest" THEN ParseGo(test_output)
    ELSE Return(NoResults, <<>>)

\* the default of coverage_threshold
DefaultCoverageThreshold == 80

\* TestCommand._check_coverage_threshold with a strict comparison
_check_coverage_threshold_strict(p, test_results) ==
    LET coverage_enabled == _get_parameter(p, "coverage_enabled", FALSE)
        coverage_threshold ==
            _get_parameter(p, "coverage_threshold", DefaultCoverageThreshold)
        coverage_percentage == test_results.coverage_percentage
        passed == The(coverage_percentage) > coverage_threshold
    IN  IF ~coverage_enabled THEN None
        ELSE IF coverage_percentage = None
        THEN Some([enabled |-> TRUE, passed |-> TRUE,
                   threshold |-> coverage_threshold, actual |-> None,
                   message |-> <<W("Coverage data not available")>>])
        ELSE Some([enabled |-> TRUE, passed |-> passed,
                   threshold |-> coverage_threshold,
                   actual |-> coverage_percentage,
                   message |->
                       <<Tok("Coverage %", The(coverage_percentage)),
                         IF passed THEN Tok("meets threshold %",
                                            coverage_threshold)
                         ELSE Tok("below threshold %", coverage_threshold)>>])

\* TestCommand._check_coverage_threshold
_check_coverage_threshold(p, test_results) ==
    LET coverage_enabled == _get_parameter(p, "coverage_enabled", FALSE)
        coverage_threshold ==
            _get_parameter(p, "coverage_threshold", DefaultCoverageThreshold)
        coverage_percentage == test_results.coverage_percentage
        passed == The(coverage_percentage) >= coverage_threshold
    IN  IF ~coverage_enabled THEN None
        ELSE IF coverage_percentage = None
        THEN Some([enabled |-> TRUE, passed |-> TRUE,
                   threshold |-> coverage_threshold, actual |-> None,
                   message |-> <<W("Coverage data not available")>>])
        ELSE Some([enabled |-> TRUE, passed |-> passed,
                   threshold |-> coverage_threshold,
                   actual |-> coverage_percentage,
                   message |->
                       <<Tok("Coverage %", The(coverage_percentage)),
                         IF passed THEN Tok("meets threshold %",
                                            coverage_threshold)
                         ELSE Tok("below threshold %", coverage_threshold)>>])

\* TestCommand._generate_result_message
TestCommand_generate_result_message(test_results, coverage_check) ==
    <<Tok("Tests completed:", test_results.tests_passed),
      Tok("/", test_results.tests_total), W("passed")>>
    \o (IF test_results.tests_failed > 0
        THEN <<Tok(",", test_results.tests_failed), W("failed")>> ELSE <<>>)
    \o (IF test_results.tests_skipped > 0
        THEN <<Tok(",", test_results.tests_skipped), W("skipped")>> ELSE <<>>)
    \o (IF coverage_check # None /\ The(coverage_check).actual # None
        THEN <<Tok("| Coverage: %", The(The(coverage_check).actual))>>
        ELSE <<>>)

\* TestCommand._execute_tests raising on a non-zero exit code
_execute_tests_raising(o) ==
    IF ~o.started THEN Raise(FileNotFoundError, <<NotStarted("test")>>)
    ELSE IF o.returncode # 0
    THEN Raise(Exception("RuntimeError",
                  <<Tok("Tests failed with exit code", o.returncode)>>),
               <<Spawn("test", o.returncode)>>)
    ELSE Return(o.stdout \o o.stderr, <<Spawn("test", o.returncode)>>)

\* TestCommand._execute_tests
_execute_tests(o) ==
    IF ~o.started THEN Raise(FileNotFoundError, <<NotStarted("test")>>)
    ELSE Return(o.stdout \o o.stderr, <<Spawn("test", o.returncode)>>)

\* TestCommand.execute deciding on the failed tests alone
TestCommand_overall_success_testsOnly(test_results, coverage_check) ==
    test_results.tests_failed = 0

\* TestCommand.execute, "Determine overall success"
TestCommand_overall_success(test_results, coverage_check) ==
    LET tests_passed == test_results.tests_failed = 0
        coverage_passed ==
            IF coverage_check # None THEN The(coverage_check).passed ELSE TRUE
    IN  tests_passed /\ coverage_passed

\* TestCommand.execute
TestCommand_execute(p, o) ==
    LET test_framework == p["test_framework"]
        tests == _execute_tests(o)
        parsed == _parse_test_results(test_framework, The(tests.ret))
        test_results == The(parsed.ret)
        coverage_check == _check_coverage_threshold(p, test_results)
    IN  IF tests.exc # None THEN tests
        ELSE IF parsed.exc # None
        THEN Raise(The(parsed.exc),
                   tests.events \o <<Stage("_parse_test_results")>>)
        ELSE Return(
            CommandResult(
                TestCommand_overall_success(test_results, coverage_check),
                TestCommand_generate_result_message(test_results,
                                                    coverage_check),
                Some([test_framework |-> test_framework,
                      project_path |-> p["project_path"],
                      command_executed |-> _prepare_test_command(p),
                      test_results |-> test_results,
                      coverage_check |-> coverage_check]),
                None),
            tests.events \o <<Stage("_parse_test_results"),
                              Stage("_check_coverage_threshold")>>)

\* the texts of at most MaxLines lines taken from a set of lines
TextsOf(lines) ==
    {Join(ls, <<NL>>) : ls \in UNION {[1..n -> lines] : n \in 0..MaxLines}}

PytestLines ==
    {<<Tok(w, c)>> : w \in {"passed", "failed", "skipped"}, c \in Counts}
    \cup {<<W("TOTAL"), Tok("%", 79)>>, <<W("TOTAL"), Tok("%", 80)>>,
          <<W("TOTAL")>>, <<Tok("%", 80)>>}

MavenLines ==
    {<<Tok("Tests run:", f + e + s + 1), Tok(", Failures:", f),
       Tok(", Errors:", e), Tok(", Skipped:", s)>> :
        f \in Counts, e \in {0, 1}, s \in {0, 1}}
    \cup {<<Tok("Tests run:", 1), Tok(", Failures:", 0)>>}

JestLines ==
    {<<W("Tests:"), Tok("passed", c), Tok("total", c + d)>> :
        c \in Counts, d \in {0, 1}}
    \cup {<<W("Tests:"), Tok("failed", 1), Tok("passed", 1), Tok("total", 2)>>,
          <<W("Tests:")>>, <<Tok("All files |", 79)>>,
          <<Tok("All files |", 80)>>, <<W("All files | .")>>}

GoLines == {<<W("PASS")>>, <<W("FAIL")>>, <<W("\tok\t")>>}

\* the output texts of a test run
TestTexts ==
    TextsOf(PytestLines) \cup TextsOf(MavenLines) \cup TextsOf(JestLines)
    \cup TextsOf(GoLines)

\* what a test tool writes
TestOutcomes ==
    {NotStartedOutcome} \cup
    {Exited(rc, out, err) :
        rc \in ExitCodes, out \in TestTexts, err \in {<<>>, <<W("warning")>>}}

----------------------------------------------------------------------------
(* commands/terraform_command.py *)

\* TerraformCommand._run_terraform; name: the terraform sub-command
_run_terraform(name, o) ==
    IF ~o.started THEN Raise(FileNotFoundError, <<NotStarted(name)>>)
    ELSE IF o.returncode # 0
    THEN Raise(Exception("RuntimeError",
                  <<Tok("Terraform command failed with exit code",
                        o.returncode), NL,
                    W("Command:"), W(name), NL, W("Error:"), NL>> \o o.stderr),
               <<Spawn(name, o.returncode)>>)
    ELSE Return(o.stdout \o o.stderr, <<Spawn(name, o.returncode)>>)

\* TerraformCommand._parse_providers: one entry per
\* '- Installed <name> v<version>' of the output, in order
_parse_providers(output) ==
    LET installed == SelectSeq(output, LAMBDA t : t.k = "- Installed aws v")
    IN  [i \in 1..Len(installed) |-> Tok("aws@", installed[i].n)]

\* re.search of three numbered lexemes in a row: the position of the first
ThreeInARow(output, k1, k2, k3) ==
    Least({i \in 1..(Len(output) - 2) :
              /\ output[i].k = k1
              /\ output[i + 1].k = k2
              /\ output[i + 2].k = k3})

\* TerraformCommand._parse_plan_changes taking the last match
_parse_plan_changes_last(output) ==
    LET ms == {i \in 1..(Len(output) - 2) :
                  /\ output[i].k = "Plan: # to add"
                  /\ output[i + 1].k = ", # to change"
                  /\ output[i + 2].k = ", # to destroy"}
        m == IF ms = {} THEN 0 ELSE CHOOSE i \in ms : \A j \in ms : j <= i
    IN  IF m # 0
        THEN [add |-> output[m].n, change |-> output[m + 1].n,
              destroy |-> output[m + 2].n]
        ELSE [add |-> 0, change |-> 0, destroy |-> 0]

\* TerraformCommand._parse_plan_changes
_parse_plan_changes(output) ==
    LET m == ThreeInARow(output, "Plan: # to add", ", # to change",
                         ", # to destroy")
    IN  IF m # 0
        THEN [add |-> output[m].n, change |-> output[m + 1].n,
              destroy |-> output[m + 2].n]
        ELSE [add |-> 0, change |-> 0, destroy |-> 0]

\* TerraformCommand._parse_apply_results
_parse_apply_results(output) ==
    LET m == ThreeInARow(output, "# added", ", # changed", ", # destroyed")
    IN  IF m # 0
        THEN [added |-> output[m].n, changed |-> output[m + 1].n,
              destroyed |-> output[m + 2].n]
        ELSE [added |-> 0, changed |-> 0, destroyed |-> 0]

\* TerraformCommand._count_destroyed
_count_destroyed(output) ==
    LET m == Least({i \in 1..Len(output) :
                       output[i].k = "Destroy complete! Resources: # destroyed"})
    IN  IF m # 0 THEN output[m].n ELSE 0

\* json.loads(output) of _execute_output: a text that is one JSON object
\* with n members gives a mapping of n entries, a text that is one JSON
\* number gives that number, any other text raises JSONDecodeError and
\* gives {}
_execute_output_loads(output) ==
    IF Len(output) = 1 /\ output[1].k = "{# members}"
    THEN [type |-> "dict", len |-> output[1].n]
    ELSE IF Len(output) = 1 /\ output[1].k = "#"
    THEN [type |-> "int", len |-> 0]
    ELSE [type |-> "dict", len |-> 0]

\* TerraformCommand._generate_result_message
TerraformCommand_generate_result_message(operation, result_data) ==
    CASE operation = "init" ->
           <<W("Terraform initialized successfully")>> \o
           (IF result_data.providers # <<>>
            THEN <<W("with providers:")>> \o
                 Join([i \in 1..Len(result_data.providers) |->
                          <<result_data.providers[i]>>], <<W(", ")>>)
            ELSE <<>>)
      [] operation = "validate" -> <<W("Terraform configuration is valid")>>
      [] operation = "plan" ->
           IF result_data.has_changes
           THEN <<Tok("Plan: # to add", result_data.changes.add),
                  Tok(", # to change", result_data.changes.change),
                  Tok(", # to destroy", result_data.changes.destroy)>>
           ELSE <<W("No changes. Infrastructure is up-to-date")>>
      [] operation = "apply" ->
           <<Tok("Apply complete: # added", result_data.resources.added),
             Tok(", # changed", result_data.resources.changed),
             Tok(", # destroyed", result_data.resources.destroyed)>>
      [] operation = "destroy" ->
           <<Tok("Destroy complete: # resources destroyed",
                 result_data.resources_destroyed)>>
      [] operation = "output" ->
           <<Tok("Retrieved # output values", result_data.outputs.len)>>

\* TerraformCommand.execute selecting the workspace for init as well
SelectsWorkspace_alsoInit(p) == _get_parameter(p, "workspace", "") # ""

\* TerraformCommand.execute, "if workspace and operation != 'init'"
SelectsWorkspace(p) ==
    _get_parameter(p, "workspace", "") # "" /\ p["operation"] # "init"

\* TerraformCommand.execute from "Execute operation" on
TerraformCommand_execute_operation(p, o) ==
    LET operation == p["operation"]
        ran == _run_terraform(operation, o)
        output == The(ran.ret)
        base == [operation |-> operation, working_dir |-> p["working_dir"],
                 workspace |-> _get_parameter(p, "workspace", "default")]
        changes == _parse_plan_changes(output)
        outputs == _execute_output_loads(output)
        result_data ==
            CASE operation = "init" ->
                   base @@ [initialized |-> TRUE,
                            providers |-> _parse_providers(output)]
              [] operation = "validate" -> base @@ [valid |-> TRUE]
              [] operation = "plan" ->
                   base @@ [changes |-> changes,
                            has_changes |-> \E k \in {"add", "change", "destroy"} :
                                                changes[k] > 0]
              [] operation = "apply" ->
                   base @@ [applied |-> TRUE,
                            resources |-> _parse_apply_results(output)]
              [] operation = "destroy" ->
                   base @@ [destroyed |-> TRUE,
                            resources_destroyed |-> _count_destroyed(output)]
              [] operation = "output" -> base @@ [outputs |-> outputs]
        parser ==
            CASE operation = "init" -> <<Stage("_parse_providers")>>
              [] operation = "validate" -> <<>>
              [] operation = "plan" -> <<Stage("_parse_plan_changes")>>
              [] operation = "apply" -> <<Stage("_parse_apply_results")>>
              [] operation = "destroy" -> <<Stage("_count_destroyed")>>
              [] operation = "output" -> <<Stage("json.loads")>>
    IN  IF ran.exc # None THEN ran
        ELSE IF operation = "output" /\ outputs.type = "int"
        THEN Raise(Exception("TypeError",
                      <<W("object of type 'int' has no len()")>>),
                   ran.events \o parser)
        ELSE Return(
            CommandResult(TRUE,
                TerraformCommand_generate_result_message(operation, result_data),
                Some(result_data), None),
            ran.events \o parser)

\* the CalledProcessError of subprocess.run(..., check=True)
CalledProcessError(name, returncode) ==
    Exception("CalledProcessError",
        <<W("Command"), W(name), Tok("returned non-zero exit status", returncode)>>)

PlanLines ==
    {<<Tok("Plan: # to add", a), Tok(", # to change", c),
       Tok(", # to destroy", d)>> : a \in Counts, c \in {0, 1}, d \in {0, 1}}
    \cup {<<W("No changes.")>>, <<Tok("Plan: # to add", 1)>>}

ApplyLines ==
    {<<W("Apply complete! Resources:"), Tok("# added", a),
       Tok(", # changed", c), Tok(", # destroyed", d)>> :
        a \in Counts, c \in {0, 1}, d \in {0, 1}}
    \cup {<<Tok("Destroy complete! Resources: # destroyed", c)>> : c \in Counts}

InitLines == {<<Tok("- Installed aws v", c)>> : c \in Counts}

JsonLines == {<<Tok("{# members}", c)>> : c \in Counts} \cup {<<Tok("#", 1)>>}

\* the output texts of terraform
TerraformTexts ==
    TextsOf(PlanLines) \cup TextsOf(ApplyLines) \cup TextsOf(InitLines)
    \cup TextsOf(JsonLines)

\* what terraform writes
TerraformOutcomes ==
    {NotStartedOutcome} \cup
    {Exited(rc, out, err) :
        rc \in ExitCodes, out \in TerraformTexts,
        err \in {<<>>, <<W("err"), NL>>}}

----------------------------------------------------------------------------
(* commands/docker_command.py *)

Whitespace == {NL, W(" ")}

RECURSIVE LStrip(_)
LStrip(text) ==
    IF text # <<>> /\ Head(text) \in Whitespace THEN LStrip(Tail(text))
    ELSE text

RECURSIVE RStrip(_)
RStrip(text) ==
    IF text # <<>> /\ text[Len(text)] \in Whitespace
    THEN RStrip(SubSeq(text, 1, Len(text) - 1))
    ELSE text

\* str.strip()
Strip(text) == RStrip(LStrip(text))

\* the characters of [a-zA-Z0-9._-]
SafeChars ==
    {"a", "b", "c", "d", "e", "f", "g", "h", "i", "j", "k", "l", "m", "n", "o",
     "p", "q", "r", "s", "t", "u", "v", "w", "x", "y", "z",
     "A", "B", "C", "D", "E", "F", "G", "H", "I", "J", "K", "L", "M", "N", "O",
     "P", "Q", "R", "S", "T", "U", "V", "W", "X", "Y", "Z",
     "0", "1", "2", "3", "4", "5", "6", "7", "8", "9", ".", "_", "-"}

\* re.sub(r'[^a-zA-Z0-9._-]', '', branch_name): the characters dropped
Sanitize_dropping(branch_name) ==
    SelectSeq(branch_name, LAMBDA c : c.k \in SafeChars)

\* re.sub(r'[^a-zA-Z0-9._-]', '-', branch_name)
Sanitize(branch_name) ==
    [i \in 1..Len(branch_name) |->
        IF branch_name[i].k \in SafeChars THEN branch_name[i] ELSE W("-")]

\* DockerCommand._get_git_commit_sha and _get_git_branch_name: check=True,
\* CalledProcessError and FileNotFoundError give None
GitQuery(o) ==
    IF ~o.started \/ o.returncode # 0 THEN None ELSE Some(Strip(o.stdout))

\* DockerCommand._generate_all_tags: f'commit-{commit_sha[:8]}'
CommitTag(commit_sha) ==
    Chars(<<"c", "o", "m", "m", "i", "t", "-">>)
    \o SubSeq(commit_sha, 1, IF Len(commit_sha) < 8 THEN Len(commit_sha) ELSE 8)

\* DockerCommand._generate_all_tags: f'branch-{safe_branch}'
BranchTag(branch_name) ==
    Chars(<<"b", "r", "a", "n", "c", "h", "-">>) \o Sanitize(branch_name)

\* DockerCommand._generate_all_tags adding the date tag also when it is not
\* asked for
_generate_all_tags_alwaysDate(p, commit, branch, today) ==
    LET explicit_tags ==
            _get_parameter(p, "tags", <<Chars(<<"l", "a", "t", "e", "s", "t">>)>>)
        commit_sha == GitQuery(commit)
        branch_name == GitQuery(branch)
    IN  explicit_tags
        \o (IF /\ _get_parameter(p, "auto_tag_commit", FALSE)
               /\ commit_sha # None /\ The(commit_sha) # <<>>
            THEN <<CommitTag(The(commit_sha))>> ELSE <<>>)
        \o (IF /\ _get_parameter(p, "auto_tag_branch", FALSE)
               /\ branch_name # None /\ The(branch_name) # <<>>
            THEN <<BranchTag(The(branch_name))>> ELSE <<>>)
        \o <<today>>

\* DockerCommand._generate_all_tags, given what the two git queries give
\* and the date of the clock
_generate_all_tags(p, commit, branch, today) ==
    LET explicit_tags ==
            _get_parameter(p, "tags", <<Chars(<<"l", "a", "t", "e", "s", "t">>)>>)
        commit_sha == GitQuery(commit)
        branch_name == GitQuery(branch)
    IN  explicit_tags
        \o (IF /\ _get_parameter(p, "auto_tag_commit", FALSE)
               /\ commit_sha # None /\ The(commit_sha) # <<>>
            THEN <<CommitTag(The(commit_sha))>> ELSE <<>>)
        \o (IF /\ _get_parameter(p, "auto_tag_branch", FALSE)
               /\ branch_name # None /\ The(branch_name) # <<>>
            THEN <<BranchTag(The(branch_name))>> ELSE <<>>)
        \o (IF _get_parameter(p, "auto_tag_date", FALSE)
            THEN <<today>> ELSE <<>>)

\* DockerCommand._build_image: command_parts
_build_image_command_parts(p, tags) ==
    LET image(tag) == <<W(p["image_name"]), W(":")>> \o tag
        build_args == _get_parameter(p, "build_args", <<>>)
        build_arg(kv) == <<W(kv[1]), W("="), W(kv[2])>>
        target_stage == _get_parameter(p, "target_stage", "")
    IN  <<Arg("docker"), Arg("build")>>
        \o Extend("-t", [i \in 1..Len(tags) |-> image(tags[i])])
        \o <<Arg("-f"), Arg(_get_parameter(p, "dockerfile_path", "Dockerfile"))>>
        \o Extend("--build-arg",
                  [i \in 1..Len(build_args) |-> build_arg(build_args[i])])
        \o (IF target_stage # ""
            THEN <<Arg("--target"), Arg(target_stage)>> ELSE <<>>)
        \o (IF _get_parameter(p, "no_cache", FALSE)
            THEN <<Arg("--no-cache")>> ELSE <<>>)
        \o <<Arg(_get_parameter(p, "build_context", "."))>>

\* DockerCommand._extract_image_id: re.search(r'sha256:([a-f0-9]{64})'),
\* which also matches inside 'digest: sha256:...'
_extract_image_id(build_output) ==
    LET m == Least({i \in 1..Len(build_output) :
                       build_output[i].k \in {"sha256:#", "digest: sha256:#"}})
    IN  IF m # 0 THEN Some(Tok("short id #", build_output[m].n)) ELSE None

\* DockerCommand._extract_digest: re.search(r'digest: (sha256:[a-f0-9]{64})')
_extract_digest(push_output) ==
    LET m == Least({i \in 1..Len(push_output) :
                       push_output[i].k = "digest: sha256:#"})
    IN  IF m # 0 THEN Some(Tok("sha256:#", push_output[m].n)) ELSE None

\* DockerCommand._generate_result_message
DockerCommand_generate_result_message(operation, result_data) ==
    LET tags == Join(result_data.tags_applied, <<W(", ")>>)
    IN  (CASE operation = "build" ->
                <<W("Successfully built image"), W(result_data.image_name),
                  W("with tags:")>> \o tags
           [] operation = "push" ->
                <<W("Successfully pushed image"), W(result_data.image_name),
                  W("with tags:")>> \o tags
           [] OTHER ->
                <<W("Successfully built and pushed image"),
                  W(result_data.image_name), W("with tags:")>> \o tags)
        \o (IF /\ "image_size" \in DOMAIN result_data
               /\ result_data.image_size # None
               /\ The(result_data.image_size) # <<>>
            THEN <<W("(Size:")>> \o The(result_data.image_size) \o <<W(")")>>
            ELSE <<>>)

Builds(p) == p["operation"] \in {"build", "build-and-push"}

Pushes(p) == p["operation"] \in {"push", "build-and-push"}

\* the local variables of DockerCommand.execute when it starts
DockerLocals(p) ==
    [tags |-> _get_parameter(p, "tags", <<Chars(<<"l", "a", "t", "e", "s", "t">>)>>),
     commit_sha |-> None, branch_name |-> None,
     built |-> FALSE, image_id |-> None, image_size |-> None,
     push_results |-> <<>>]

\* execute() is at the subprocess.run call named next
At(next, l, events) ==
    [next |-> next, locals |-> l, events |-> events, exc |-> None, ret |-> None]

\* DockerCommand.execute: the result message and the return
DockerReturn(p, l, events) ==
    LET operation == p["operation"]
        result_data ==
            (IF Pushes(p) THEN [push_results |-> l.push_results] ELSE <<>>)
            @@ (IF Builds(p)
                THEN [image_id |-> l.image_id, image_size |-> l.image_size]
                ELSE <<>>)
            @@ [operation |-> operation, image_name |-> p["image_name"],
                tags_applied |-> l.tags, build_completed |-> l.built,
                push_completed |-> Pushes(p)]
    IN  [next |-> "return", locals |-> l, events |-> events, exc |-> None,
         ret |-> Some(CommandResult(TRUE,
                     DockerCommand_generate_result_message(operation, result_data),
                     Some(result_data), None))]

\* DockerCommand._push_image returning from inside the loop, after the first
\* tag was pushed
ToPush_firstOnly(p, l, events) ==
    IF l.push_results = <<>> /\ l.tags # <<>> THEN At("push", l, events)
    ELSE DockerReturn(p, l, events)

\* DockerCommand._push_image: the loop over the tags
ToPush(p, l, events) ==
    IF Len(l.push_results) < Len(l.tags) THEN At("push", l, events)
    ELSE DockerReturn(p, l, events)

\* DockerCommand._authenticate_registry asking for one credential only
ToLogin_either(p, l, events) ==
    IF ~Pushes(p) THEN DockerReturn(p, l, events)
    ELSE IF \/ _get_parameter(p, "registry_username", "") # ""
            \/ _get_parameter(p, "registry_password", "") # ""
    THEN At("login", l, events)
    ELSE ToPush(p, l, events)

\* DockerCommand._authenticate_registry up to the login process:
\* "if not (registry_username and registry_password): return"
ToLogin(p, l, events) ==
    IF ~Pushes(p) THEN DockerReturn(p, l, events)
    ELSE IF /\ _get_parameter(p, "registry_username", "") # ""
            /\ _get_parameter(p, "registry_password", "") # ""
    THEN At("login", l, events)
    ELSE ToPush(p, l, events)

\* DockerCommand.execute after _build_image returned: all_tags[0]
ToImageSize(p, l, events) ==
    IF l.tags = <<>>
    THEN [next |-> "raise", locals |-> l, events |-> events,
          exc |-> Some(Exception("IndexError", <<W("list index out of range")>>)),
          ret |-> None]
    ELSE At("images", l, events)

\* DockerCommand.execute, "Build image if required"
ToBuild(p, l, events) ==
    IF Builds(p) THEN At("build", l, events) ELSE ToLogin(p, l, events)

\* DockerCommand._generate_all_tags, "Auto-tag with date"
ToDate(p, l, today, events) ==
    ToBuild(p,
            IF _get_parameter(p, "auto_tag_date", FALSE)
            THEN [l EXCEPT !.tags = Append(@, today)] ELSE l,
            events)

\* DockerCommand._generate_all_tags with the branch block nested in
\* "if commit_sha:"
ToBranch_nested(p, l, today, events) ==
    IF /\ _get_parameter(p, "auto_tag_branch", FALSE)
       /\ _get_parameter(p, "auto_tag_commit", FALSE) =>
              (l.commit_sha # None /\ The(l.commit_sha) # <<>>)
    THEN At("git branch", l, events)
    ELSE ToDate(p, l, today, events)

\* DockerCommand._generate_all_tags, "Auto-tag with branch name"
ToBranch(p, l, today, events) ==
    IF _get_parameter(p, "auto_tag_branch", FALSE)
    THEN At("git branch", l, events)
    ELSE ToDate(p, l, today, events)

\* DockerCommand._generate_all_tags, "Auto-tag with commit SHA"
ToCommit(p, l, today, events) ==
    IF _get_parameter(p, "auto_tag_commit", FALSE)
    THEN At("git commit", l, events)
    ELSE ToBranch(p, l, today, events)

\* the values of datetime.now().strftime('%Y%m%d')
Dates ==
    {Chars(<<"2", "0", "2", "4", "0", "1", "3", "1">>),
     Chars(<<"2", "0", "2", "4", "0", "2", "0", "1">>)}

\* what git rev-parse HEAD writes
GitCommitOutcomes ==
    {NotStartedOutcome,
     Exited(128, <<>>, <<W("fatal: not a git repository"), NL>>),
     Exited(0, <<>>, <<>>),
     Exited(0, Chars(<<"0", "1", "2", "3", "4", "a", "b", "c", "d", "e">>)
               \o <<NL>>, <<>>)}

\* what git rev-parse --abbrev-ref HEAD writes
GitBranchOutcomes ==
    {NotStartedOutcome,
     Exited(128, <<>>, <<W("fatal: not a git repository"), NL>>),
     Exited(0, Chars(<<"f", "e", "a", "t", "u", "r", "e", "/", "M", "y", " ",
                       "F", "i", "x", "!">>) \o <<NL>>, <<>>),
     Exited(0, Chars(<<"v", "1", ".", "0", "_", "r", "c", "-", "2">>)
               \o <<NL>>, <<>>)}

\* what docker build writes
DockerBuildOutcomes ==
    {NotStartedOutcome,
     Exited(1, <<W("out"), NL>>, <<W("err"), NL>>),
     Exited(1, <<>>, <<>>),
     Exited(0, <<>>, <<>>),
     Exited(0, <<Tok("sha256:#", 1), NL>>, <<W("warning"), NL>>)}

\* what docker images writes
DockerImagesOutcomes ==
    {NotStartedOutcome,
     Exited(1, <<>>, <<W("err"), NL>>),
     Exited(0, <<W("12MB"), NL>>, <<>>)}

\* what docker login writes
DockerLoginOutcomes ==
    {NotStartedOutcome,
     Exited(1, <<W("out"), NL>>, <<W("err"), NL>>),
     Exited(0, <<W("Login Succeeded"), NL>>, <<>>)}

\* what docker push writes
DockerPushOutcomes ==
    {NotStartedOutcome,
     Exited(1, <<W("out"), NL>>, <<W("err"), NL>>),
     Exited(1, <<>>, <<>>),
     Exited(0, <<>>, <<>>),
     Exited(0, <<Tok("digest: sha256:#", 2), NL>>, <<>>)}

----------------------------------------------------------------------------
(* The state machine *)

NoProc == NotStartedOutcome

NoLocals ==
    [tags |-> <<>>, commit_sha |-> None, branch_name |-> None,
     built |-> FALSE, image_id |-> None, image_size |-> None,
     push_results |-> <<>>]

Init ==
    /\ cmd = "none"
    /\ parameters = <<>>
    /\ pc = "start"
    /\ trace = <<>>
    /\ proc = NoProc
    /\ locals = NoLocals
    /\ thrown = None
    /\ result = None
    /\ raised = None

\* BaseCommand.__init__: command = XCommand(parameters)
Construct ==
    /\ pc = "start"
    /\ \E c \in Commands : \E p \in ParameterSets(c) :
         LET error == validate_parameters(c, p, Files)
         IN  /\ cmd' = c
             /\ parameters' = p
             /\ raised' = error
             /\ pc' = IF error = None THEN "constructed" ELSE "rejected"
    /\ UNCHANGED <<trace, proc, locals, thrown, result>>

\* run() returns to the caller what execute() returned or raised
Finish(r) ==
    LET final == run(r)
    IN  /\ trace' = trace \o final.events
        /\ thrown' = r.exc
        /\ result' = final.ret
        /\ raised' = final.exc
        /\ pc' = IF final.exc = None THEN "returned" ELSE "raised"

\* BuildCommand.run
BuildRun ==
    /\ pc = "constructed" /\ cmd = "build"
    /\ \E o \in ToolOutcomes : \E found \in ArtifactLists :
         /\ proc' = o
         /\ Finish(BuildCommand_execute(parameters, o, found))
    /\ UNCHANGED <<cmd, parameters, locals>>

\* TestCommand.run
TestRun ==
    /\ pc = "constructed" /\ cmd = "test"
    /\ \E o \in TestOutcomes :
         /\ proc' = o
         /\ Finish(TestCommand_execute(parameters, o))
    /\ UNCHANGED <<cmd, parameters, locals>>

\* execute() goes on to its next subprocess.run call
Continue(events, next) ==
    /\ trace' = trace \o events
    /\ pc' = next
    /\ UNCHANGED <<thrown, result, raised>>

\* TerraformCommand._select_workspace: terraform workspace select
TerraformSelectWorkspace ==
    /\ pc = "constructed" /\ cmd = "terraform" /\ SelectsWorkspace(parameters)
    /\ \E o \in ToolOutcomes :
         /\ proc' = o
         /\ IF ~o.started
            THEN Finish(Raise(FileNotFoundError,
                              <<NotStarted("workspace select")>>))
            ELSE Continue(<<Spawn("workspace select", o.returncode)>>,
                          IF o.returncode # 0 THEN "workspace new"
                          ELSE "operation")
    /\ UNCHANGED <<cmd, parameters, locals>>

\* TerraformCommand._select_workspace: terraform workspace new, check=True
TerraformNewWorkspace ==
    /\ pc = "workspace new"
    /\ \E o \in ToolOutcomes :
         /\ proc' = o
         /\ IF ~o.started
            THEN Finish(Raise(FileNotFoundError, <<NotStarted("workspace new")>>))
            ELSE IF o.returncode # 0
            THEN Finish(Raise(CalledProcessError("workspace new", o.returncode),
                              <<Spawn("workspace new", o.returncode)>>))
            ELSE Continue(<<Spawn("workspace new", o.returncode)>>, "operation")
    /\ UNCHANGED <<cmd, parameters, locals>>

\* TerraformCommand.execute: the operation itself
TerraformOperation ==
    /\ cmd = "terraform"
    /\ \/ pc = "operation"
       \/ pc = "constructed" /\ ~SelectsWorkspace(parameters)
    /\ \E o \in TerraformOutcomes :
         /\ proc' = o
         /\ Finish(TerraformCommand_execute_operation(parameters, o))
    /\ UNCHANGED <<cmd, parameters, locals>>

\* where DockerCommand.execute is: at a subprocess.run call, or about to run
\* from its beginning to the first one
DockerHere(today) ==
    IF pc = "constructed"
    THEN ToCommit(parameters, DockerLocals(parameters), today, <<>>)
    ELSE At(pc, locals, <<>>)

\* execute() goes on to its next subprocess.run call, returns or raises
DockerGo(r) ==
    /\ locals' = r.locals
    /\ IF r.next \in {"return", "raise"} THEN Finish(r)
       ELSE Continue(r.events, r.next)

\* DockerCommand.execute when no process is needed at all
DockerNoProcess ==
    /\ cmd = "docker" /\ pc = "constructed"
    /\ \E today \in Dates :
         /\ DockerHere(today).next \in {"return", "raise"}
         /\ DockerGo(DockerHere(today))
    /\ UNCHANGED <<cmd, parameters, proc>>

\* DockerCommand._get_git_commit_sha
DockerGitCommit ==
    /\ cmd = "docker"
    /\ \E today \in Dates : \E o \in GitCommitOutcomes :
         LET here == DockerHere(today)
             commit_sha == GitQuery(o)
             l == IF commit_sha # None /\ The(commit_sha) # <<>>
                  THEN [here.locals EXCEPT
                           !.commit_sha = commit_sha,
                           !.tags = Append(@, CommitTag(The(commit_sha)))]
                  ELSE [here.locals EXCEPT !.commit_sha = commit_sha]
         IN  /\ here.next = "git commit"
             /\ proc' = o
             /\ DockerGo(ToBranch(parameters, l, today,
                    <<IF o.started THEN Spawn("git commit", o.returncode)
                      ELSE NotStarted("git commit")>>))
    /\ UNCHANGED <<cmd, parameters>>

\* DockerCommand._get_git_branch_name
DockerGitBranch ==
    /\ cmd = "docker"
    /\ \E today \in Dates : \E o \in GitBranchOutcomes :
         LET here == DockerHere(today)
             branch_name == GitQuery(o)
             l == IF branch_name # None /\ The(branch_name) # <<>>
                  THEN [here.locals EXCEPT
                           !.branch_name = branch_name,
                           !.tags = Append(@, BranchTag(The(branch_name)))]
                  ELSE [here.locals EXCEPT !.branch_name = branch_name]
         IN  /\ here.next = "git branch"
             /\ proc' = o
             /\ DockerGo(ToDate(parameters, l, today,
                    <<IF o.started THEN Spawn("git branch", o.returncode)
                      ELSE NotStarted("git branch")>>))
    /\ UNCHANGED <<cmd, parameters>>

\* DockerCommand._build_image
DockerBuild ==
    /\ cmd = "docker"
    /\ \E today \in Dates : \E o \in DockerBuildOutcomes :
         LET here == DockerHere(today)
             l == [here.locals EXCEPT
                      !.built = TRUE,
                      !.image_id = _extract_image_id(o.stdout \o o.stderr)]
         IN  /\ here.next = "build"
             /\ proc' = o
             /\ IF ~o.started
                THEN /\ locals' = here.locals
                     /\ Finish(Raise(FileNotFoundError,
                                     <<NotStarted("docker build")>>))
                ELSE IF o.returncode # 0
                THEN /\ locals' = here.locals
                     /\ Finish(Raise(Exception("RuntimeError",
                            <<Tok("Docker build failed with exit code",
                                  o.returncode), NL, W("Error output:"), NL>>
                            \o o.stderr),
                            <<Spawn("docker build", o.returncode)>>))
                ELSE DockerGo(ToImageSize(parameters, l,
                        <<Spawn("docker build", o.returncode),
                          Stage("_extract_image_id")>>))
    /\ UNCHANGED <<cmd, parameters>>

\* DockerCommand._get_image_size: check=True, CalledProcessError gives None
DockerImageSize ==
    /\ cmd = "docker" /\ pc = "images"
    /\ \E o \in DockerImagesOutcomes :
         /\ proc' = o
         /\ IF ~o.started
            THEN /\ locals' = locals
                 /\ Finish(Raise(FileNotFoundError,
                                 <<NotStarted("docker images")>>))
            ELSE DockerGo(ToLogin(parameters,
                    [locals EXCEPT !.image_size =
                        IF o.returncode # 0 THEN None
                        ELSE Some(Strip(o.stdout))],
                    <<Spawn("docker images", o.returncode)>>))
    /\ UNCHANGED <<cmd, parameters>>

\* DockerCommand._authenticate_registry
DockerLogin ==
    /\ cmd = "docker"
    /\ \E today \in Dates : \E o \in DockerLoginOutcomes :
         LET here == DockerHere(today)
         IN  /\ here.next = "login"
             /\ proc' = o
             /\ IF ~o.started
                THEN /\ locals' = here.locals
                     /\ Finish(Raise(FileNotFoundError,
                                     <<NotStarted("docker login")>>))
                ELSE IF o.returncode # 0
                THEN /\ locals' = here.locals
                     /\ Finish(Raise(Exception("RuntimeError",
                            <<W("Registry authentication failed:")>> \o o.stderr),
                            <<Spawn("docker login", o.returncode)>>))
                ELSE DockerGo(ToPush(parameters, here.locals,
                        <<Spawn("docker login", o.returncode)>>))
    /\ UNCHANGED <<cmd, parameters>>

\* DockerCommand._push_image: one turn of the loop
DockerPush ==
    /\ cmd = "docker"
    /\ \E today \in Dates : \E o \in DockerPushOutcomes :
         LET here == DockerHere(today)
             tag == here.locals.tags[Len(here.locals.push_results) + 1]
             full_image_name == <<W(parameters["image_name"]), W(":")>> \o tag
         IN  /\ here.next = "push"
             /\ proc' = o
             /\ IF ~o.started
                THEN /\ locals' = here.locals
                     /\ Finish(Raise(FileNotFoundError,
                                     <<NotStarted("docker push")>>))
                ELSE IF o.returncode # 0
                THEN /\ locals' = here.locals
                     /\ Finish(Raise(Exception("RuntimeError",
                            <<W("Failed to push")>> \o full_image_name
                            \o <<W(":")>> \o o.stderr),
                            <<Spawn("docker push", o.returncode)>>))
                ELSE DockerGo(ToPush(parameters,
                        [here.locals EXCEPT !.push_results =
                            Append(@, [tag |-> tag,
                                       full_name |-> full_image_name,
                                       digest |-> _extract_digest(o.stdout),
                                       success |-> TRUE])],
                        <<Spawn("docker push", o.returncode),
                          Stage("_extract_digest")>>))
    /\ UNCHANGED <<cmd, parameters>>

Next ==
    \/ Construct
    \/ DockerNoProcess
    \/ DockerGitCommit
    \/ DockerGitBranch
    \/ DockerBuild
    \/ DockerImageSize
    \/ DockerLogin
    \/ DockerPush
    \/ TerraformSelectWorkspace
    \/ TerraformNewWorkspace
    \/ TerraformOperation
    \/ BuildRun
    \/ TestRun

Spec == Init /\ [][Next]_vars

----------------------------------------------------------------------------
(* Assembling the invocation twice from the same parameters *)

\* an assembled invocation: the tag list and the argument vector (one
\* command string for the shell of build and test), with the date of the
\* clock and the existence of the plan file when it was assembled
Assembled(name, tags, argv, today, plan_file_exists) ==
    [kind |-> "assembled", name |-> name, rc |-> 0, tags |-> tags,
     argv |-> argv, today |-> today, plan_file_exists |-> plan_file_exists]

BuildAssemblySets ==
    UNION {Partial([build_tool |-> t, project_path |-> "/proj",
                    build_command |->
                        Chars(<<"m", "a", "v", "e", "n", " ", "c", "l", "e",
                                "a", "n", " ", "a", "l", "l">>),
                    skip_tests |-> TRUE, clean_before_build |-> FALSE,
                    build_arguments |-> Chars(<<"-", "q">>)],
                   {"build_command", "skip_tests", "clean_before_build",
                    "build_arguments"}) :
           t \in Range(DEFAULT_BUILD_COMMANDS)}

TestAssemblySets ==
    UNION {Partial([test_framework |-> t, project_path |-> "/proj",
                    test_command |->
                        Chars(<<"m", "a", "v", "e", "n", " ", "i", "t">>),
                    coverage_enabled |-> TRUE, fail_fast |-> TRUE,
                    parallel_execution |-> TRUE,
                    test_pattern |-> Chars(<<"F", "o", "o">>),
                    test_arguments |-> Chars(<<"-", "v">>)],
                   {"test_command", "coverage_enabled", "fail_fast",
                    "parallel_execution", "test_pattern", "test_arguments"}) :
           t \in Range(DEFAULT_TEST_COMMANDS)}

DockerAssemblySets ==
    UNION {Partial([operation |-> o, image_name |-> "app", tags |-> t,
                    auto_tag_commit |-> TRUE, auto_tag_branch |-> TRUE,
                    auto_tag_date |-> TRUE,
                    build_args |-> <<<<"ENV", "prod">>, <<"V", "1">>>>,
                    target_stage |-> "runtime", no_cache |-> TRUE,
                    build_context |-> "/proj"],
                   {"tags", "auto_tag_commit", "auto_tag_branch",
                    "auto_tag_date", "build_args", "target_stage", "no_cache",
                    "build_context"}) :
           o \in Range(DockerCommand_VALID_OPERATIONS),
           t \in TagLists}

TerraformAssemblySets ==
    UNION {Partial([operation |-> o, working_dir |-> "/infra",
                    var_file |-> "prod.tfvars",
                    variables |->
                        <<[name |-> "region", type |-> "str",
                           value |-> <<"eu">>],
                          [name |-> "zones", type |-> "list",
                           value |-> <<"a", "b">>]>>,
                    target |-> <<"aws_s3_bucket.b">>,
                    parallelism |-> 4, lock |-> FALSE, lock_timeout |-> "30s",
                    plan_output_file |-> "tfplan", destroy_plan |-> TRUE,
                    auto_approve |-> TRUE,
                    backend_config |-> <<<<"bucket", "state">>>>,
                    reconfigure |-> TRUE, upgrade |-> TRUE],
                   optional) :
           o \in Range(TerraformCommand_VALID_OPERATIONS),
           optional \in
               {{"var_file", "variables", "target", "plan_output_file",
                 "auto_approve"},
                {"parallelism", "lock", "lock_timeout", "plan_output_file",
                 "destroy_plan"},
                {"backend_config", "reconfigure", "upgrade"}}}
    \cup {[operation |-> o, working_dir |-> "/infra"] :
             o \in Range(TerraformCommand_VALID_OPERATIONS)}

AssemblySets(c) ==
    CASE c = "build"     -> BuildAssemblySets
      [] c = "test"      -> TestAssemblySets
      [] c = "docker"    -> DockerAssemblySets
      [] c = "terraform" -> TerraformAssemblySets

\* what execute() assembles before its process is spawned
Invocation(c, p, commit, branch, today, plan_file_exists) ==
    LET tags == _generate_all_tags(p, commit, branch, today)
    IN  CASE c = "build" ->
               Assembled("build", <<>>, <<_prepare_build_command(p)>>,
                         today, plan_file_exists)
          [] c = "test" ->
               Assembled("test", <<>>, <<_prepare_test_command(p)>>,
                         today, plan_file_exists)
          [] c = "docker" ->
               Assembled("docker", tags,
                         IF Builds(p) THEN _build_image_command_parts(p, tags)
                         ELSE <<>>,
                         today, plan_file_exists)
          [] c = "terraform" ->
               Assembled(p["operation"], <<>>,
                         TerraformCommand_cmd(p, plan_file_exists),
                         today, plan_file_exists)

\* command = XCommand(parameters), with parameters that pass the validation
AssemblyConstruct ==
    /\ pc = "start"
    /\ \E c \in Commands : \E p \in AssemblySets(c) :
         /\ validate_parameters(c, p, Files) = None
         /\ cmd' = c
         /\ parameters' = p
         /\ pc' = "constructed"
    /\ UNCHANGED <<trace, proc, locals, thrown, result, raised>>

\* the command is assembled, in some state of the repository, of the clock
\* and of the working directory
Assemble ==
    /\ pc = "constructed" /\ Len(trace) < 2
    /\ \E commit \in GitCommitOutcomes : \E branch \in GitBranchOutcomes :
       \E today \in Dates : \E plan_file_exists \in BOOLEAN :
         trace' = Append(trace, Invocation(cmd, parameters, commit, branch,
                                           today, plan_file_exists))
    /\ UNCHANGED <<cmd, parameters, pc, proc, locals, thrown, result, raised>>

AssemblyNext == AssemblyConstruct \/ Assemble

AssemblySpec == Init /\ [][AssemblyNext]_vars

----------------------------------------------------------------------------
(* Properties *)

\* the required parameters of each command, as its class documents them
RequiredKeys(c) ==
    CASE c = "build"     -> {"build_tool", "project_path"}
      [] c = "test"      -> {"test_framework", "project_path"}
      [] c = "docker"    -> {"operation", "image_name"}
      [] c = "terraform" -> {"operation", "working_dir"}

MissingKeys == RequiredKeys(cmd) \ DOMAIN parameters

\* the parameters pass every check of the command's validation
Legal ==
    /\ MissingKeys = {}
    /\ cmd = "build" =>
         /\ parameters["build_tool"] \in {"maven", "gradle", "npm", "pip", "go"}
         /\ parameters["project_path"] \in Files
    /\ cmd = "test" =>
         /\ parameters["test_framework"] \in
                {"maven", "gradle", "pytest", "jest", "gotest"}
         /\ parameters["project_path"] \in Files
    /\ cmd = "docker" =>
         /\ parameters["operation"] \in {"build", "push", "build-and-push"}
         /\ parameters["operation"] \in {"build", "build-and-push"} =>
              (IF "dockerfile_path" \in DOMAIN parameters
               THEN parameters["dockerfile_path"] ELSE "./Dockerfile") \in Files
    /\ cmd = "terraform" =>
         /\ parameters["operation"] \in
                {"init", "plan", "apply", "destroy", "validate", "output"}
         /\ parameters["working_dir"] \in Files
         /\ parameters["operation"] # "init" =>
              parameters["working_dir"] \o "/main.tf" \in Files

\* the processes of the operations that do not tolerate a non-zero exit code
NonTolerantProcesses ==
    {"build", "docker build", "docker push",
     "init", "plan", "apply", "destroy", "validate", "output"}

\* run() has returned after a process of a non-tolerant operation exited
\* with a non-zero code; proc is the outcome of that process
FailedProcess ==
    /\ trace # <<>>
    /\ trace[Len(trace)].kind = "spawn"
    /\ trace[Len(trace)].name \in NonTolerantProcesses
    /\ trace[Len(trace)].rc # 0

\* a test run has returned an envelope that carries the parsed metrics
TestReported ==
    /\ cmd = "test" /\ pc = "returned"
    /\ result # None /\ The(result).output_data # None

TestData == The(The(result).output_data)

CoverageEnabled ==
    "coverage_enabled" \in DOMAIN parameters /\ parameters["coverage_enabled"]

\* C1: an exception raised inside execute() never reaches the caller of
\* run(): run() returns an envelope with success false whose error_details
\* is the (non-empty) description of the exception.
C1_ExceptionBecomesEnvelope ==
    thrown # None =>
        /\ raised = None
        /\ pc = "returned"
        /\ result # None
        /\ The(result).success = FALSE
        /\ The(result).error_details = Some(The(thrown).text)
        /\ The(thrown).text # <<>>

\* an output parser raised (float() of a malformed jest coverage figure)
C1_Witness ==
    /\ thrown # None /\ The(thrown).type = "ValueError"
    /\ cmd = "test" /\ result # None

\* C2: an exception raised by parameter validation reaches the caller as a
\* failed envelope (success false, error detail = the description of the
\* exception) and never as a raised exception.
C2_ValidationFaultBecomesEnvelope ==
    (cmd # "none" /\ ~Legal) =>
        /\ raised = None
        /\ result # None
        /\ The(result).success = FALSE
        /\ The(result).error_details # None

\* C3: when required keys are missing, validation fails with one ValueError
\* whose text names every missing key, and no process is spawned.
C3_AllMissingKeysListed ==
    (cmd # "none" /\ MissingKeys # {}) =>
        /\ pc = "rejected"
        /\ raised # None
        /\ The(raised).type = "ValueError"
        /\ The(raised).text[1] = W("Missing required parameters:")
        /\ \A k \in MissingKeys : W(k) \in Range(The(raised).text)
        /\ trace = <<>>

\* both required keys of a terraform command are missing
C3_Witness ==
    /\ cmd = "terraform" /\ pc = "rejected"
    /\ MissingKeys = {"operation", "working_dir"}

\* C4: a process is spawned only after validation has passed; when the
\* parameters fail any check of the validation, no process is spawned.
C4_NoProcessBeforeValidation ==
    /\ trace # <<>> => (cmd # "none" /\ Legal)
    /\ (cmd # "none" /\ ~Legal) => (pc = "rejected" /\ trace = <<>>)

\* a terraform plan in a directory without .tf files is rejected
C4_Witness ==
    /\ cmd = "terraform" /\ pc = "rejected" /\ MissingKeys = {}
    /\ parameters["operation"] = "plan"
    /\ parameters["working_dir"] = "/empty"
    /\ trace = <<>>

\* C5: a non-zero exit code of the process of a non-tolerant operation is
\* the last thing that happens: run() returns a failure envelope, and no
\* parser, artifact search, image-size lookup, login or push follows it.
C5_NonZeroExitStopsTheRun ==
    \A i \in 1..Len(trace) :
        (/\ trace[i].kind = "spawn"
         /\ trace[i].name \in NonTolerantProcesses
         /\ trace[i].rc # 0) =>
            /\ i = Len(trace)
            /\ pc = "returned"
            /\ result # None
            /\ The(result).success = FALSE

\* the second docker push fails after the first one succeeded
C5_Witness ==
    /\ FailedProcess /\ trace[Len(trace)].name = "docker push"
    /\ locals.push_results # <<>>
    /\ The(result).success = FALSE

C8_TestSuccessRule ==
    (cmd = "test" /\ pc = "returned" /\ thrown = None) =>
        /\ TestReported
        /\ The(result).success =
              (/\ TestData.test_results.tests_failed = 0
               /\ \/ ~CoverageEnabled
                  \/ The(TestData.coverage_check).passed)

\* failed tests with a coverage that meets the threshold
C8_Witness ==
    /\ TestReported /\ CoverageEnabled
    /\ TestData.test_results.tests_failed > 0
    /\ The(TestData.coverage_check).passed
    /\ The(result).success = FALSE

\* C9: no coverage check when coverage is disabled; with a parsed
\* percentage the check passes iff percentage >= threshold (80 when not
\* configured); with no parsed percentage it passes, actual is null and a
\* message is set.
C9_CoverageCheck ==
    TestReported =>
        LET check == TestData.coverage_check
            actual == TestData.test_results.coverage_percentage
            threshold == IF "coverage_threshold" \in DOMAIN parameters
                         THEN parameters["coverage_threshold"] ELSE 80
        IN  /\ ~CoverageEnabled => check = None
            /\ CoverageEnabled =>
                 /\ check # None
                 /\ actual # None =>
                      /\ The(check).passed = (The(actual) >= threshold)
                      /\ The(check).actual = actual
                 /\ actual = None =>
                      /\ The(check).passed = TRUE
                      /\ The(check).actual = None
                      /\ The(check).message # <<>>

\* a coverage of exactly the default threshold passes
C9_Witness ==
    /\ TestReported /\ CoverageEnabled
    /\ "coverage_threshold" \notin DOMAIN parameters
    /\ TestData.test_results.coverage_percentage = Some(80)
    /\ The(TestData.coverage_check).passed

\* C10: the parsed metrics of every framework satisfy
\* tests_total = tests_passed + tests_failed + tests_skipped.
C10_TotalIsSum ==
    TestReported =>
        TestData.test_results.tests_total =
            TestData.test_results.tests_passed
            + TestData.test_results.tests_failed
            + TestData.test_results.tests_skipped

\* a run with passed, failed and skipped tests
C10_Witness ==
    /\ TestReported
    /\ TestData.test_results.tests_passed > 0
    /\ TestData.test_results.tests_failed > 0
    /\ TestData.test_results.tests_skipped > 0

\* run() has returned an envelope with success false
FailureEnvelope ==
    pc = "returned" /\ result # None /\ ~The(result).success

\* C11 as stated: every envelope with success false carries a non-empty
\* error_details, also the one of a test run that reported failing tests or
\* a coverage shortfall.
C11_FailureHasDetails ==
    FailureEnvelope =>
        /\ The(result).error_details # None
        /\ The(The(result).error_details) # <<>>

\* C11 amended: an envelope with success false carries a non-empty
\* error_details when execute() raised; the only other envelopes with
\* success false are those of a test run that reported failing tests or a
\* coverage shortfall, and they carry the metrics in output_data and a null
\* error_details.
C11_FailureDetailsUnlessTestsReported ==
    FailureEnvelope =>
        IF thrown # None
        THEN /\ The(result).error_details # None
             /\ The(The(result).error_details) # <<>>
        ELSE /\ TestReported
             /\ The(result).error_details = None
             /\ \/ TestData.test_results.tests_failed > 0
                \/ /\ TestData.coverage_check # None
                   /\ ~The(TestData.coverage_check).passed

\* a test run without failed tests whose coverage is below the threshold
C11_Witness ==
    /\ FailureEnvelope /\ TestReported /\ thrown = None
    /\ TestData.test_results.tests_failed = 0
    /\ ~The(TestData.coverage_check).passed

\* C12: an envelope returned by run() has exactly one of output_data and
\* error_details populated, a message that is present, and output_data as
\* the populated one when success is true.
C12_ExactlyOnePopulated ==
    (pc = "returned" /\ result # None) =>
        /\ (The(result).output_data # None) # (The(result).error_details # None)
        /\ The(result).message # <<>>
        /\ The(result).success => The(result).output_data # None

\* a terraform operation raised after the workspace was selected
C12_Witness ==
    /\ cmd = "terraform" /\ pc = "returned" /\ thrown # None
    /\ Spawn("workspace select", 0) \in Range(trace)
    /\ The(result).output_data = None
    /\ The(result).error_details # None

\* every process of the run was started and exited zero
AllExitedZero ==
    /\ trace # <<>>
    /\ \A i \in 1..Len(trace) :
          /\ trace[i].kind # "not started"
          /\ trace[i].kind = "spawn" => trace[i].rc = 0

\* C13: no output text makes a parser raise: a test run whose process was
\* started returns the parsed metrics, and a terraform or docker operation
\* whose processes all exited zero returns a success envelope, whatever the
\* processes wrote.
C13_MissingPatternNeverAnError ==
    /\ (cmd = "test" /\ pc = "returned" /\ proc.started) => TestReported
    /\ (cmd = "terraform" /\ pc = "returned" /\ AllExitedZero) =>
          (result # None /\ The(result).success)
    /\ (cmd = "docker" /\ pc = "returned" /\ AllExitedZero
        /\ locals.tags # <<>>) =>
          (result # None /\ The(result).success)

\* the command was assembled twice from the same parameters
AssembledTwice == Len(trace) = 2 /\ trace[1].kind = "assembled"

\* no tag derived from the repository is asked for
NoSourceControlTag ==
    /\ ~_get_parameter(parameters, "auto_tag_commit", FALSE)
    /\ ~_get_parameter(parameters, "auto_tag_branch", FALSE)

\* what the two assemblies give: the tag lists and the argument vectors
SameInvocation ==
    /\ trace[1].tags = trace[2].tags
    /\ trace[1].argv = trace[2].argv

\* the assembly reads the clock, or looks for the plan file
ReadsClock == cmd = "docker" /\ _get_parameter(parameters, "auto_tag_date", FALSE)

ReadsPlanFile ==
    /\ cmd = "terraform" /\ parameters["operation"] = "apply"
    /\ "plan_output_file" \in DOMAIN parameters

\* C14 as stated: two assemblies from the same parameters give the same
\* invocation whenever neither auto_tag_commit nor auto_tag_branch is asked
\* for, whatever the clock and the repository at each of them.
C14_DeterministicWithoutSourceControlTags ==
    (AssembledTwice /\ NoSourceControlTag) => SameInvocation

\* C14 amended: two assemblies from the same parameters give the same
\* invocation whenever neither auto_tag_commit nor auto_tag_branch is asked
\* for, provided the date is the same at both when auto_tag_date is asked
\* for, and the plan file exists at both or at neither when a terraform
\* apply names a plan_output_file.
C14_DeterministicGivenDateAndPlanFile ==
    (/\ AssembledTwice /\ NoSourceControlTag
     /\ ReadsClock => trace[1].today = trace[2].today
     /\ ReadsPlanFile => trace[1].plan_file_exists = trace[2].plan_file_exists)
        => SameInvocation

\* a docker build with a date tag assembled twice on the same day, the
\* second time after the repository has gone
C14_Witness ==
    /\ AssembledTwice /\ NoSourceControlTag /\ ReadsClock
    /\ parameters["operation"] = "build"
    /\ trace[1].today = trace[2].today
    /\ Len(trace[1].tags) = 2
    /\ trace[1].argv = trace[2].argv

\* git has just given a branch name to _generate_all_tags
BranchQueried ==
    /\ cmd = "docker" /\ trace # <<>>
    /\ trace[Len(trace)] = Spawn("git branch", 0)
    /\ Strip(proc.stdout) # <<>>

\* the tag that was derived from the branch name: the last one, or the one
\* before the date tag
BranchTagApplied ==
    locals.tags[IF _get_parameter(parameters, "auto_tag_date", FALSE)
                THEN Len(locals.tags) - 1 ELSE Len(locals.tags)]

\* C15: the tag derived from a branch name is 'branch-' followed by the
\* name, character by character, with '-' in the place of each character
\* outside [A-Za-z0-9._-]; it contains only characters of that set.
C15_BranchTagSanitized ==
    BranchQueried =>
        LET name == Strip(proc.stdout)
            tag == BranchTagApplied
            prefix == Chars(<<"b", "r", "a", "n", "c", "h", "-">>)
        IN  /\ Len(tag) = Len(prefix) + Len(name)
            /\ SubSeq(tag, 1, Len(prefix)) = prefix
            /\ \A i \in 1..Len(name) :
                  tag[Len(prefix) + i] =
                      IF name[i].k \in SafeChars THEN name[i] ELSE W("-")
            /\ \A i \in 1..Len(tag) : tag[i].k \in SafeChars

\* 'feature/My Fix!' gives 'branch-feature-My-Fix-'
C15_Witness ==
    /\ BranchQueried
    /\ Strip(proc.stdout) = Chars(<<"f", "e", "a", "t", "u", "r", "e", "/",
                          "M", "y", " ", "F", "i", "x", "!">>)
    /\ BranchTagApplied = Chars(<<"b", "r", "a", "n", "c", "h", "-", "f", "e",
                        "a", "t", "u", "r", "e", "-", "M", "y", "-", "F", "i", "x", "-">>)

\* _generate_all_tags has returned
TagsGenerated ==
    /\ cmd = "docker"
    /\ pc \in {"build", "images", "login", "push", "returned"}

\* a git query of the run failed: git is not installed, or it exited
\* non-zero as it does outside a repository
GitFailed(name) ==
    \E i \in 1..Len(trace) :
        /\ trace[i].name = name
        /\ trace[i].kind = "not started" \/ trace[i].rc # 0

\* C16: each derived tag is produced on its own: the tag list is the
\* explicit tags, then the commit tag if asked for and known, then the
\* branch tag if asked for and known, then the date tag if asked for; a
\* failed git query leaves its answer unknown and nothing else, and the run
\* goes on to the build or the push.
C16_DerivedTagsIndependent ==
    /\ TagsGenerated =>
          /\ \E today \in Dates :
                locals.tags =
                    _get_parameter(parameters, "tags",
                        <<Chars(<<"l", "a", "t", "e", "s", "t">>)>>)
                    \o (IF /\ _get_parameter(parameters, "auto_tag_commit", FALSE)
                           /\ locals.commit_sha \notin {None, Some(<<>>)}
                        THEN <<Chars(<<"c", "o", "m", "m", "i", "t", "-">>)
                               \o SubSeq(The(locals.commit_sha), 1, 8)>>
                        ELSE <<>>)
                    \o (IF /\ _get_parameter(parameters, "auto_tag_branch", FALSE)
                           /\ locals.branch_name \notin {None, Some(<<>>)}
                        THEN <<Chars(<<"b", "r", "a", "n", "c", "h", "-">>)
                               \o Sanitize(The(locals.branch_name))>>
                        ELSE <<>>)
                    \o (IF _get_parameter(parameters, "auto_tag_date", FALSE)
                        THEN <<today>> ELSE <<>>)
          /\ _get_parameter(parameters, "auto_tag_commit", FALSE) =>
                (locals.commit_sha = None <=> GitFailed("git commit"))
          /\ _get_parameter(parameters, "auto_tag_branch", FALSE) =>
                (locals.branch_name = None <=> GitFailed("git branch"))
    /\ (cmd = "docker" /\ trace # <<>>
        /\ trace[Len(trace)].name \in {"git commit", "git branch"}) =>
          thrown = None

\* git is not installed, the commit and the branch are unknown, and the
\* explicit tag and the date tag are pushed
C16_Witness ==
    /\ TagsGenerated /\ pc = "returned"
    /\ NotStarted("git commit") \in Range(trace)
    /\ NotStarted("git branch") \in Range(trace)
    /\ Len(locals.tags) = 2
    /\ Len(locals.push_results) = 2
    /\ The(result).success

\* both credentials are supplied: given, with a value that is not empty
CredentialsSupplied ==
    /\ _get_parameter(parameters, "registry_username", "") # ""
    /\ _get_parameter(parameters, "registry_password", "") # ""

\* the positions of the trace where the process called name was spawned or
\* could not be started
ProcessesOf(name) ==
    {i \in 1..Len(trace) : trace[i].kind # "stage" /\ trace[i].name = name}

\* execute() has come to "Push image if required": there is nothing to
\* build, or the image was built and its size looked up
PushStageReached ==
    /\ TagsGenerated
    /\ Builds(parameters) =>
          \E i \in ProcessesOf("docker images") : trace[i].kind = "spawn"

\* C17: docker login is spawned only for an operation that pushes with
\* both credentials supplied, and in that case it is the one process
\* spawned when the push stage is reached; it comes before every docker
\* push; when it fails, no push
\* is spawned and run() returns success false.
C17_LoginBeforePush ==
    cmd = "docker" =>
        /\ ProcessesOf("docker login") # {} =>
              (Pushes(parameters) /\ CredentialsSupplied)
        /\ (PushStageReached /\ Pushes(parameters) /\ CredentialsSupplied) =>
              IF pc = "login" THEN ProcessesOf("docker login") = {}
              ELSE Cardinality(ProcessesOf("docker login")) = 1
        /\ \A i \in ProcessesOf("docker login") :
              /\ \A j \in ProcessesOf("docker push") : i < j
              /\ (trace[i].kind = "not started" \/ trace[i].rc # 0) =>
                    /\ ProcessesOf("docker push") = {}
                    /\ i = Len(trace)
                    /\ pc = "returned"
                    /\ ~The(result).success
        /\ (ProcessesOf("docker push") # {} /\ CredentialsSupplied) =>
              Spawn("docker login", 0) \in Range(trace)

\* the image was built, the login succeeded and a tag was pushed
C17_Witness ==
    /\ cmd = "docker" /\ pc = "returned" /\ The(result).success
    /\ parameters["operation"] = "build-and-push"
    /\ Spawn("docker login", 0) \in Range(trace)
    /\ ProcessesOf("docker push") # {}

\* a workspace is given, with a name that is not empty
WorkspaceGiven == _get_parameter(parameters, "workspace", "") # ""

\* the process at position i was spawned and exited zero
ExitedZero(i) == trace[i].kind = "spawn" /\ trace[i].rc = 0

\* C18: with a workspace given and an operation other than init, workspace
\* select is the first process; workspace new is spawned iff the select
\* exited non-zero, right after it; the process of the operation is spawned
\* only right after a select or a new that exited zero; a new that fails
\* ends the run with success false.  For init, or with no workspace, no
\* workspace process is spawned.
C18_SelectOrCreateWorkspace ==
    (cmd = "terraform" /\ pc # "rejected") =>
        LET operation == parameters["operation"]
            selects == WorkspaceGiven /\ operation # "init"
        IN  /\ ~selects =>
                  /\ ProcessesOf("workspace select") = {}
                  /\ ProcessesOf("workspace new") = {}
            /\ (selects /\ trace # <<>>) =>
                  ProcessesOf("workspace select") = {1}
            /\ ProcessesOf("workspace new") \subseteq {2}
            /\ (selects /\ trace # <<>> /\ trace[1].kind = "spawn") =>
                  IF trace[1].rc # 0
                  THEN pc = "workspace new" \/ ProcessesOf("workspace new") = {2}
                  ELSE ProcessesOf("workspace new") = {}
            /\ \A i \in ProcessesOf(operation) :
                  selects => (i > 1 /\ ExitedZero(i - 1)
                              /\ trace[i - 1].name \in
                                     {"workspace select", "workspace new"})
            /\ \A i \in ProcessesOf("workspace new") :
                  ~ExitedZero(i) =>
                      /\ ProcessesOf(operation) = {}
                      /\ pc = "returned"
                      /\ ~The(result).success

\* the workspace did not exist, was created, and the plan ran in it
C18_Witness ==
    /\ cmd = "terraform" /\ pc = "returned" /\ The(result).success
    /\ parameters["operation"] = "plan"
    /\ Len(trace) >= 3
    /\ SubSeq(trace, 1, 3) = <<Spawn("workspace select", 1),
                               Spawn("workspace new", 0), Spawn("plan", 0)>>

\* a terraform plan has returned its envelope
PlanReported ==
    /\ cmd = "terraform" /\ pc = "returned" /\ thrown = None
    /\ parameters["operation"] = "plan"

\* the positions of the output of the process where a line
\* 'Plan: A to add, C to change, D to destroy' begins
PlanLinesOf(output) ==
    {i \in 1..(Len(output) - 2) :
        /\ output[i].k = "Plan: # to add"
        /\ output[i + 1].k = ", # to change"
        /\ output[i + 2].k = ", # to destroy"}

\* C19: the changes of a plan are the three numbers of the first line
\* 'Plan: A to add, C to change, D to destroy' of the output, or zeros when
\* there is none; has_changes iff one of them is positive; the message is
\* that line when has_changes and 'No changes. Infrastructure is
\* up-to-date' otherwise.
C19_PlanChanges ==
    PlanReported =>
        LET output == proc.stdout \o proc.stderr
            lines == PlanLinesOf(output)
            data == The(The(result).output_data)
            a == data.changes.add
            c == data.changes.change
            d == data.changes.destroy
        IN  /\ lines = {} => (a = 0 /\ c = 0 /\ d = 0)
            /\ \A i \in lines :
                  (\A j \in lines : i <= j) =>
                      /\ a = output[i].n
                      /\ c = output[i + 1].n
                      /\ d = output[i + 2].n
            /\ data.has_changes = (a > 0 \/ c > 0 \/ d > 0)
            /\ The(result).message =
                  IF a = 0 /\ c = 0 /\ d = 0
                  THEN <<W("No changes. Infrastructure is up-to-date")>>
                  ELSE <<Tok("Plan: # to add", a), Tok(", # to change", c),
                         Tok(", # to destroy", d)>>

\* two plan lines in the output: the changes are those of the first one
C19_Witness ==
    /\ PlanReported
    /\ Cardinality(PlanLinesOf(proc.stdout \o proc.stderr)) = 2
    /\ The(The(result).output_data).changes =
           [add |-> 1, change |-> 1, destroy |-> 0]
    /\ The(The(result).output_data).has_changes

\* the positions of the trace where a process was spawned, or could not be
\* started
Processes == {i \in 1..Len(trace) : trace[i].kind # "stage"}

\* the process that each parsing stage reads the output of
ProcessOfStage(stage) ==
    CASE stage = "_find_build_artifacts" -> "build"
      [] stage \in {"_parse_test_results", "_check_coverage_threshold"} -> "test"
      [] stage = "_extract_image_id" -> "docker build"
      [] stage = "_extract_digest" -> "docker push"
      [] OTHER -> parameters["operation"]

\* C20 as stated: a call of run() spawns exactly one external process.
C20_ExactlyOneProcess ==
    pc = "returned" => Cardinality(Processes) = 1

\* C20 amended: a call of run() on a build or test command spawns exactly
\* one process; on a terraform command it spawns the process of the
\* operation after at most a workspace select and a workspace new; on a
\* docker command it spawns at most one git query for the commit, one for
\* the branch, one build, one image-size lookup, one login and one push per
\* tag; the processes run one after the other, and a stage that reads the
\* output of a process runs after that process has exited.
C20_ProcessesInSequence ==
    /\ (pc = "returned" /\ cmd \in {"build", "test"}) =>
          Cardinality(Processes) = 1
    /\ (pc = "returned" /\ cmd = "terraform") =>
          /\ Cardinality(Processes) \in 1..3
          /\ Cardinality(ProcessesOf(parameters["operation"])) <= 1
          /\ Cardinality(Processes) =
                Cardinality(ProcessesOf("workspace select"))
                + Cardinality(ProcessesOf("workspace new"))
                + Cardinality(ProcessesOf(parameters["operation"]))
    /\ (pc = "returned" /\ cmd = "docker") =>
          /\ \A name \in {"git commit", "git branch", "docker build",
                           "docker images", "docker login"} :
                Cardinality(ProcessesOf(name)) <= 1
          /\ Cardinality(ProcessesOf("docker push")) <= Len(locals.tags)
    /\ \A i \in 1..Len(trace) :
          trace[i].kind = "stage" =>
              \E j \in 1..(i - 1) :
                  /\ trace[j].kind = "spawn"
                  /\ trace[j].name = ProcessOfStage(trace[i].name)
                  /\ \A k \in (j + 1)..(i - 1) : trace[k].kind = "stage"

\* a docker build-and-push that spawned six processes
C20_Witness ==
    /\ cmd = "docker" /\ pc = "returned" /\ The(result).success
    /\ Cardinality(Processes) = 6
    /\ Cardinality(ProcessesOf("docker push")) = 2

\* s is how t starts
IsPrefix(s, t) == Len(s) <= Len(t) /\ SubSeq(t, 1, Len(s)) = s

\* the parameter that overrides the default command of a build or a test
OverrideKey == IF cmd = "build" THEN "build_command" ELSE "test_command"

\* a build or test command line was assembled from parameters that give an
\* override command
OverrideAssembled ==
    /\ cmd \in {"build", "test"} /\ trace # <<>>
    /\ trace[1].kind = "assembled"
    /\ OverrideKey \in DOMAIN parameters

\* C21: whatever the optional flags, the command line assembled from an
\* override command (build_command, test_command) starts with the override
\* verbatim; the flags only append to it.
C21_OverrideKeptVerbatim ==
    OverrideAssembled =>
        \A i \in 1..Len(trace) :
            IsPrefix(parameters[OverrideKey], trace[i].argv[1])

\* the coverage instrumentation of each framework that has one
CoverageToken(test_framework) ==
    CASE test_framework = "maven" ->
             Chars(<<"j", "a", "c", "o", "c", "o", ":", "r", "e", "p", "o",
                     "r", "t">>)
      [] test_framework = "gradle" ->
             Chars(<<"j", "a", "c", "o", "c", "o", "T", "e", "s", "t", "R",
                     "e", "p", "o", "r", "t">>)
      [] test_framework = "pytest" -> Chars(<<"-", "-", "c", "o", "v">>)
      [] test_framework = "jest" ->
             Chars(<<"-", "-", "c", "o", "v", "e", "r", "a", "g", "e">>)

InstrumentedFrameworks == {"maven", "gradle", "pytest", "jest"}

\* a test command line was assembled from the default of the framework
DefaultTestAssembled ==
    /\ cmd = "test" /\ trace # <<>>
    /\ trace[1].kind = "assembled"
    /\ "test_command" \notin DOMAIN parameters

\* C22: without an override command, the test command line assembled with
\* coverage_enabled contains the coverage instrumentation of the framework
\* (maven, gradle, pytest, jest), and the one assembled without
\* coverage_enabled contains the instrumentation of none of them.
C22_CoverageInstrumentation ==
    DefaultTestAssembled =>
        \A i \in 1..Len(trace) :
            IF _get_parameter(parameters, "coverage_enabled", FALSE)
            THEN parameters["test_framework"] \in InstrumentedFrameworks =>
                     IsInfix(CoverageToken(parameters["test_framework"]),
                             trace[i].argv[1])
            ELSE \A f \in InstrumentedFrameworks :
                     ~IsInfix(CoverageToken(f), trace[i].argv[1])

\* the flag of each build tool that can skip the tests
SkipToken(build_tool) ==
    CASE build_tool = "maven" ->
             Chars(<<"-", "D", "s", "k", "i", "p", "T", "e", "s", "t", "s">>)
      [] build_tool = "gradle" ->
             Chars(<<"-", "x", " ", "t", "e", "s", "t">>)

SkippingTools == {"maven", "gradle"}

\* a build command line was assembled from the default of the build tool
DefaultBuildAssembled ==
    /\ cmd = "build" /\ trace # <<>>
    /\ trace[1].kind = "assembled"
    /\ "build_command" \notin DOMAIN parameters

\* C23: without an override command, the build command line assembled with
\* skip_tests contains '-DskipTests' for maven and '-x test' for gradle, and
\* the one assembled without skip_tests contains neither.
C23_SkipTests ==
    DefaultBuildAssembled =>
        \A i \in 1..Len(trace) :
            IF _get_parameter(parameters, "skip_tests", FALSE)
            THEN parameters["build_tool"] \in SkippingTools =>
                     IsInfix(SkipToken(parameters["build_tool"]),
                             trace[i].argv[1])
            ELSE \A t \in SkippingTools :
                     ~IsInfix(SkipToken(t), trace[i].argv[1])

\* the docker push processes that exited zero
PushedZero ==
    {i \in ProcessesOf("docker push") : trace[i] = Spawn("docker push", 0)}

\* the docker push processes that exited non-zero
PushedNonZero ==
    {i \in ProcessesOf("docker push") :
        trace[i].kind = "spawn" /\ trace[i].rc # 0}

\* image_name:tag
FullImageName(tag) == <<W(parameters["image_name"]), W(":")>> \o tag

\* C24: docker push spawns one push process per tag, in the order of the
\* tag list; the first push that exits non-zero is the last process of the
\* run, which returns success false naming the tag that failed while the
\* earlier tags stay pushed; when every push exits zero, push_results has one
\* entry per tag, in the order of the tag list, each with success true, and
\* push_completed is true.
C24_PushInTagOrder ==
    LET pushes == ProcessesOf("docker push")
        done == locals.push_results
    IN  pushes # {} =>
          /\ cmd = "docker" /\ Pushes(parameters)
          /\ Cardinality(pushes) <= Len(locals.tags)
          /\ Len(done) = Cardinality(PushedZero)
          /\ \A k \in 1..Len(done) :
                /\ done[k].tag = locals.tags[k]
                /\ done[k].full_name = FullImageName(locals.tags[k])
                /\ done[k].success
          /\ \A i \in PushedNonZero :
                /\ i = Len(trace)
                /\ \A j \in pushes \ {i} : j \in PushedZero
                /\ Cardinality(pushes) = Len(done) + 1
                /\ pc = "returned"
                /\ ~The(result).success
                /\ The(result).output_data = None
                /\ The(result).error_details =
                      Some(<<W("Failed to push")>>
                           \o FullImageName(locals.tags[Len(done) + 1])
                           \o <<W(":")>> \o proc.stderr)
          /\ (pc = "returned" /\ pushes = PushedZero) =>
                /\ The(result).success
                /\ Cardinality(pushes) = Len(locals.tags)
                /\ The(The(result).output_data).push_results = done
                /\ The(The(result).output_data).push_completed
                /\ The(The(result).output_data).tags_applied = locals.tags
          /\ (pc # "returned") => (pc = "push" /\ pushes = PushedZero)

\* the first of three tags was pushed, the push of the second exited
\* non-zero and the third was never pushed
C24_Witness ==
    /\ cmd = "docker" /\ pc = "returned" /\ ~The(result).success
    /\ Len(locals.tags) = 3
    /\ Cardinality(ProcessesOf("docker push")) = 2
    /\ Cardinality(PushedZero) = 1
    /\ PushedNonZero = {Len(trace)}

\* the output of a go test run reports a failure
GoTestReportsFailure ==
    /\ cmd = "test" /\ pc = "returned" /\ proc.started
    /\ parameters["test_framework"] = "gotest"
    /\ W("FAIL") \in Range(proc.stdout \o proc.stderr)

\* C25: a go test run whose output contains 'FAIL' is reported as a failed
\* step, with tests_failed >= 1 and success false, also when the output
\* contains 'PASS' for other packages.
C25_GoFailureReported ==
    GoTestReportsFailure =>
        /\ TestReported
        /\ TestData.test_results.tests_failed >= 1
        /\ ~The(result).success

\* the docker build process was spawned
BuildSpawned ==
    /\ cmd = "docker"
    /\ \E i \in ProcessesOf("docker build") : trace[i].kind = "spawn"

\* C26: whenever the docker build process is spawned the generated tag list
\* is not empty, so that the image-size lookup on its first tag is defined
\* and a build that exited zero is never turned into a failure envelope by
\* an empty tag list.
C26_BuildHasTags ==
    /\ BuildSpawned => locals.tags # <<>>
    /\ (BuildSpawned /\ Spawn("docker build", 0) \in Range(trace)
        /\ pc = "returned" /\ thrown # None) =>
          The(thrown).type # "IndexError"

====
